---- MODULE Spec2Model ----
(***************************************************************************)
(* The JSON-RPC engine of the MCP server (app/api/routes/mcp.py), the tool *)
(* registry it dispatches into (app/services/tool_registry.py) and the     *)
(* unified error responder (app/core/unified_errors.py); beside them the   *)
(* services of the server: the event fan-out (app/services/sse.py) and the *)
(* session manager over its key-value store                                *)
(* (app/services/session_manager.py) and the resource manager over its     *)
(* storage directory (app/services/resource_manager.py).                   *)
(***************************************************************************)
EXTENDS Integers, Sequences, FiniteSets, TLC

VARIABLES
    mcp_methods,  \* mcp.py: the dispatch table, method name -> handler
    tools,        \* ToolRegistry.tools: insertion-ordered name -> Tool
    request,      \* the last POST: content type and body
    engine,       \* what process_jsonrpc returned for it
    calls,        \* the handlers invoked while serving it, in order
    http,         \* the transport response: status and body
    registry_call, \* the last call made on the registry itself, and its outcome
    error_call,   \* the last call made on the error mapper, the converter or
                  \* the responder itself, and its outcome
    clients,      \* SSEManager.clients: client id -> its asyncio.Queue
    queues,       \* the asyncio.Queue objects created so far, by identity
    streams,      \* the generators made by client_events, by identity
    sse_call,     \* the last call made on the SSE manager or on a generator
    redis_pool,   \* SessionManager.redis_pool
    cleanup_task, \* SessionManager.cleanup_task
    session_keys, \* SessionManager.session_keys
    redis_connection_attempts,  \* SessionManager._redis_connection_attempts
    reconnects,   \* the _delayed_reconnect tasks created and not yet run
    redis,        \* the store: whether it answers, its session keys with the
                  \* time each expires, its set "sessions"
    now,          \* the clock, in seconds
    session_call, \* the call made on the session manager in the last step, and
                  \* its outcome
    metadata,     \* ResourceManager.metadata: URI -> metadata
    files,        \* the files under storage_path: path -> content
    time,         \* the wall clock of the resource manager, in seconds
    resource_call \* the call made on the resource manager in the last step,
                  \* and its outcome

sse_vars == <<clients, queues, streams, sse_call>>

session_vars == <<redis_pool, cleanup_task, session_keys, redis_connection_attempts,
                  reconnects, redis, now, session_call>>

resource_vars == <<metadata, files, time, resource_call>>

vars == <<mcp_methods, tools, request, engine, calls, http, registry_call, error_call,
          sse_vars, session_vars, resource_vars>>

(***************************************************************************)
(* JSON / Python values, tagged with their type.                           *)
(***************************************************************************)
JNull == [t |-> "null"]
JStr(x) == [t |-> "str", s |-> x]
JInt(k) == [t |-> "int", n |-> k]
JBool(v) == [t |-> "bool", b |-> v]
JArr(q) == [t |-> "arr", a |-> q]
JObj(f) == [t |-> "obj", o |-> f]

EmptyDict == JObj(<<>>)

\* dict.get(k): the value, or None when the key is absent
Get(d, k) == IF k \in DOMAIN d.o THEN d.o[k] ELSE JNull

\* dict.get(k, dflt)
GetDefault(d, k, dflt) == IF k \in DOMAIN d.o THEN d.o[k] ELSE dflt

\* Python truthiness: `not v`
Falsy(v) ==
    CASE v.t = "null" -> TRUE
      [] v.t = "str" -> v.s = ""
      [] v.t = "int" -> v.n = 0
      [] v.t = "bool" -> ~v.b
      [] v.t = "arr" -> v.a = <<>>
      [] v.t = "obj" -> DOMAIN v.o = {}

\* A dict built from optional entries: the entries marked Absent are left out.
Absent == [t |-> "absent"]
MkObj(f) == JObj([k \in {x \in DOMAIN f : f[x] # Absent} |-> f[k]])

(***************************************************************************)
(* Error codes (app/core/errors.py).                                       *)
(***************************************************************************)
INVALID_REQUEST == -32600
METHOD_NOT_FOUND == -32601
INVALID_PARAMS == -32602
INTERNAL_ERROR == -32603
PARSE_ERROR == -32700

(***************************************************************************)
(* Outcome of awaiting a handler: a returned value or a raised exception,  *)
(* with the handlers that ran.                                             *)
(***************************************************************************)
Ret(v, c) == [kind |-> "return", value |-> v, calls |-> c]
RaiseMCP(code, message, data, c) ==
    [kind |-> "mcp", code |-> code, message |-> message, data |-> data, calls |-> c]
RaiseExc(message, c) == [kind |-> "exc", message |-> message, calls |-> c]

InvalidParamsError(message, data, c) == RaiseMCP(INVALID_PARAMS, message, data, c)
MethodNotFoundError(message, c) == RaiseMCP(METHOD_NOT_FOUND, message, JNull, c)

\* the other classes of the taxonomy, and an MCPError raised with a code of its own
InvalidRequestError(message, data) == RaiseMCP(INVALID_REQUEST, message, data, <<>>)
InternalError(message, data) == RaiseMCP(INTERNAL_ERROR, message, data, <<>>)
ParseError(message, data) == RaiseMCP(PARSE_ERROR, message, data, <<>>)
RESOURCE_ERROR == -32800
ResourceError(message, data) == RaiseMCP(RESOURCE_ERROR, message, data, <<>>)
ResourceNotFoundError(uri, data) == ResourceError("Resource not found: " \o uri, data)
MCPError(code, message, data) == RaiseMCP(code, message, data, <<>>)

(***************************************************************************)
(* Tool registry.                                                          *)
(***************************************************************************)
ToolParameter(name, type, required, default) ==
    [name |-> name, type |-> type, required |-> required, default |-> default]

\* str.lower() on the type names of the model
Lower(s) == CASE s = "String" -> "string" [] s = "Integer" -> "integer" [] OTHER -> s

\* the JSON schema register_tool derives from the parameter list
ParamSchema(p) ==
    MkObj([type |-> JStr(Lower(p.type)),
           default |-> IF p.default # JNull THEN p.default ELSE Absent])

ToolSchema(parameters) ==
    LET required == SelectSeq(parameters, LAMBDA p : p.required)
        names == {parameters[i].name : i \in 1..Len(parameters)}
        last(n) == CHOOSE i \in 1..Len(parameters) :
                       /\ parameters[i].name = n
                       /\ \A j \in 1..Len(parameters) : parameters[j].name = n => j <= i
    IN  MkObj([type |-> JStr("object"),
               properties |-> JObj([n \in names |-> ParamSchema(parameters[last(n)])]),
               required |-> IF required # <<>>
                            THEN JArr([i \in 1..Len(required) |-> JStr(required[i].name)])
                            ELSE Absent])

Tool(name, parameters, handler) ==
    [name |-> name, parameters |-> parameters, handler |-> handler,
     schema |-> ToolSchema(parameters)]

HasTool(reg, name) == \E i \in 1..Len(reg) : reg[i].name = name

\* ToolRegistry.get_tool, for a registered name
get_tool(reg, name) == reg[CHOOSE i \in 1..Len(reg) : reg[i].name = name]

register_tool_AppendTwice(reg, name, parameters, handler) ==
    IF Cardinality({i \in 1..Len(reg) : reg[i].name = name}) >= 2
    THEN [i \in 1..Len(reg) |->
             IF reg[i].name = name THEN Tool(name, parameters, handler) ELSE reg[i]]
    ELSE Append(reg, Tool(name, parameters, handler))

register_tool_KeepFirst(reg, name, parameters, handler) ==
    IF HasTool(reg, name)
    THEN reg
    ELSE Append(reg, Tool(name, parameters, handler))

register_tool_Fresh(reg, name, parameters, handler) ==
    <<Tool(name, parameters, handler)>>

\* self.tools[name] = Tool(...): a dict keeps the position of a key it replaces
register_tool(reg, name, parameters, handler) ==
    IF HasTool(reg, name)
    THEN [i \in 1..Len(reg) |->
             IF reg[i].name = name THEN Tool(name, parameters, handler) ELSE reg[i]]
    ELSE Append(reg, Tool(name, parameters, handler))

ParamDump(p) ==
    JObj([name |-> JStr(p.name), type |-> JStr(p.type),
          required |-> JBool(p.required), default |-> p.default])

list_tools(reg) ==
    JArr([i \in 1..Len(reg) |->
             JObj([name |-> JStr(reg[i].name),
                   parameters |-> JArr([j \in 1..Len(reg[i].parameters) |->
                                            ParamDump(reg[i].parameters[j])]),
                   schema |-> reg[i].schema])])

type_map_IntegerFallback(type) ==
    IF Lower(type) \in {"string", "integer", "number", "boolean", "array", "object"}
    THEN Lower(type) ELSE "integer"

\* type_map.get(param.type.lower(), str)
type_map(type) ==
    IF Lower(type) \in {"string", "integer", "number", "boolean", "array", "object"}
    THEN Lower(type) ELSE "string"

\* int(s) for the numeric strings of the model
IsIntString(s) == s \in {"0", "1", "5"}
StrToInt(s) == CASE s = "0" -> 0 [] s = "1" -> 1 [] s = "5" -> 5

IsBoolString(s) == s \in {"0", "1", "true", "false"}
StrToBool(s) == s \in {"1", "true"}

Ok(v) == [ok |-> TRUE, value |-> v]
Bad == [ok |-> FALSE, value |-> JNull]

Coerce_Lenient(type, v) ==
    CASE type = "string" -> Ok(v)
      [] type = "integer" -> Ok(v)
      [] type = "number" -> Ok(v)
      [] type = "boolean" -> Ok(v)
      [] type = "array" -> Ok(v)
      [] type = "object" -> Ok(v)

\* pydantic's validation of a non-null value against a field of the mapped type
Coerce(type, v) ==
    CASE type = "string" -> IF v.t = "str" THEN Ok(v) ELSE Bad
      [] type = "integer" ->
            CASE v.t = "int" -> Ok(v)
              [] v.t = "bool" -> Ok(JInt(IF v.b THEN 1 ELSE 0))
              [] v.t = "str" -> IF IsIntString(v.s) THEN Ok(JInt(StrToInt(v.s))) ELSE Bad
              [] OTHER -> Bad
      [] type = "number" ->
            CASE v.t = "int" -> Ok(v)
              [] v.t = "bool" -> Ok(JInt(IF v.b THEN 1 ELSE 0))
              [] v.t = "str" -> IF IsIntString(v.s) THEN Ok(JInt(StrToInt(v.s))) ELSE Bad
              [] OTHER -> Bad
      [] type = "boolean" ->
            CASE v.t = "bool" -> Ok(v)
              [] v.t = "int" -> IF v.n \in {0, 1} THEN Ok(JBool(v.n = 1)) ELSE Bad
              [] v.t = "str" -> IF IsBoolString(v.s) THEN Ok(JBool(StrToBool(v.s))) ELSE Bad
              [] OTHER -> Bad
      [] type = "array" -> IF v.t = "arr" THEN Ok(v) ELSE Bad
      [] type = "object" -> IF v.t = "obj" THEN Ok(v) ELSE Bad

ValidateField_MissingOk(p, raw) ==
    IF p.name \notin DOMAIN raw.o
    THEN [set |-> FALSE, ok |-> TRUE, value |-> JNull, error |-> "missing"]
    ELSE LET v == raw.o[p.name]
         IN  IF v = JNull
             THEN [set |-> TRUE, ok |-> ~p.required, value |-> JNull,
                   error |-> type_map(p.type) \o "_type"]
             ELSE [set |-> TRUE, error |-> type_map(p.type) \o "_type"]
                      @@ Coerce(type_map(p.type), v)

\* one field of the dynamic ValidationModel against the raw parameters
ValidateField(p, raw) ==
    IF p.name \notin DOMAIN raw.o
    THEN [set |-> FALSE, ok |-> ~p.required, value |-> JNull, error |-> "missing"]
    ELSE LET v == raw.o[p.name]
         IN  IF v = JNull
             THEN [set |-> TRUE, ok |-> ~p.required, value |-> JNull,
                   error |-> type_map(p.type) \o "_type"]
             ELSE [set |-> TRUE, error |-> type_map(p.type) \o "_type"]
                      @@ Coerce(type_map(p.type), v)

\* e.errors(): one entry per failing field, in field order
ErrorList(failing, raw) ==
    JArr([i \in 1..Len(failing) |->
             JObj([loc |-> JStr(failing[i].name),
                   type |-> JStr(ValidateField(failing[i], raw).error)])])

ValidationErrors(parameters, raw) ==
    ErrorList(SelectSeq(parameters, LAMBDA p : ~ValidateField(p, raw).ok), raw)

ValidatedParams_Passthrough(parameters, raw) == raw

\* ValidationModel(**params).model_dump(exclude_unset=True)
ValidatedParams(parameters, raw) ==
    LET names == {parameters[i].name : i \in 1..Len(parameters)}
        spec(n) == parameters[CHOOSE i \in 1..Len(parameters) : parameters[i].name = n]
    IN  JObj([n \in {m \in names : ValidateField(spec(m), raw).set} |->
                 ValidateField(spec(n), raw).value])

\* the tool handlers that get registered
ToolHandlers == {"echo", "ok", "raise"}

CallTool(name, arg) == [kind |-> "tool", name |-> name, arg |-> arg]

RunToolHandler(tool, arg) ==
    LET c == <<CallTool(tool.name, arg)>>
    IN  CASE tool.handler = "echo" ->
                IF "message" \in DOMAIN arg.o
                THEN Ret(JObj([message |-> arg.o["message"]]), c)
                ELSE RaiseExc("'message'", c)
          [] tool.handler = "ok" -> Ret(JObj([status |-> JStr("success")]), c)
          [] tool.handler = "raise" -> RaiseExc("boom", c)

\* execute_tool once ValidationModel(**params) has been tried: errors is e.errors()
Validated(tool, params, errors) ==
    IF errors.a # <<>>
    THEN InvalidParamsError("Invalid parameters for tool: " \o tool.name,
                            JObj([errors |-> errors]), <<>>)
    ELSE IF tool.handler = "none"
    THEN InvalidParamsError("Tool handler not found", JNull, <<>>)
    ELSE RunToolHandler(tool, ValidatedParams(tool.parameters, params))

\* execute_tool for the tool that get_tool found
ExecuteFound(tool, params) ==
    IF params.t # "obj"
    THEN RaiseExc("argument after ** must be a mapping", <<>>)
    ELSE Validated(tool, params, ValidationErrors(tool.parameters, params))

execute_tool_InvalidParams(reg, name, params) ==
    IF ~HasTool(reg, name)
    THEN InvalidParamsError("Tool not found: " \o name, JNull, <<>>)
    ELSE ExecuteFound(get_tool(reg, name), params)

\* ToolRegistry.execute_tool
execute_tool(reg, name, params) ==
    IF ~HasTool(reg, name)
    THEN MethodNotFoundError("Tool not found: " \o name, <<>>)
    ELSE ExecuteFound(get_tool(reg, name), params)

(***************************************************************************)
(* Response envelopes (app/models/jsonrpc.py).                             *)
(***************************************************************************)
None == [t |-> "None"]

\* pydantic's validation of `id: Optional[Union[str, int]]` (smart union: a
\* value that already has a member type is kept as it is)
ValidateId_LeftToRight(v) ==
    CASE v.t = "str" -> JStr(v.s)
      [] v.t = "int" -> JStr(ToString(v.n))
      [] v.t = "null" -> JNull

ValidateId(v) ==
    CASE v.t = "str" -> JStr(v.s)
      [] v.t = "int" -> JInt(v.n)
      [] v.t = "null" -> JNull

JSONRPCErrorDetail(code, message, data) ==
    [code |-> code, message |-> message, data |-> data]

\* model_dump() of the response models: the fields each class declares
JSONRPCSuccessResponse(id, result) ==
    [jsonrpc |-> "2.0", id |-> ValidateId(id), result |-> result]

JSONRPCErrorResponse_WithResult(id, error) ==
    [jsonrpc |-> "2.0", id |-> ValidateId(id), result |-> JNull, error |-> error]

JSONRPCErrorResponse(id, error) ==
    [jsonrpc |-> "2.0", id |-> ValidateId(id), error |-> error]

JSONRPCBatchResponse(root) == [root |-> root]

(***************************************************************************)
(* Method handlers (mcp.py).                                               *)
(***************************************************************************)
CallMethod(handler, arg) == [kind |-> "method", name |-> handler, arg |-> arg]

handle_list_tools(params, reg) == Ret(list_tools(reg), <<>>)

handle_execute_tool_NoNameCheck(params, reg) ==
    IF params.t # "obj"
    THEN InvalidParamsError("Parameters must be an object", JNull, <<>>)
    ELSE LET tool_name == Get(params, "name")
             tool_params == GetDefault(params, "parameters", EmptyDict)
         IN  execute_tool(reg, IF tool_name.t = "str" THEN tool_name.s ELSE "",
                          tool_params)

handle_execute_tool(params, reg) ==
    IF params.t # "obj"
    THEN InvalidParamsError("Parameters must be an object", JNull, <<>>)
    ELSE LET tool_name == Get(params, "name")
             tool_params == GetDefault(params, "parameters", EmptyDict)
         IN  IF Falsy(tool_name) \/ tool_name.t # "str"
             THEN InvalidParamsError("Tool name is required", JNull, <<>>)
             ELSE execute_tool(reg, tool_name.s, tool_params)

handle_echo(params) ==
    IF params.t # "obj" \/ "message" \notin DOMAIN params.o
    THEN InvalidParamsError("Message parameter is required", JNull, <<>>)
    ELSE Ret(JObj([message |-> params.o["message"]]), <<>>)

\* handlers that register_method is given besides the three built-in ones
CustomHandlers == {"handle_fail", "handle_typed"}

\* await handler(params)
\* the outcome of a handler, with the invocation of the handler put first
WithCall(call, out) == [out EXCEPT !.calls = <<call>> \o out.calls]

RunMethod(handler, params, reg) ==
    WithCall(CallMethod(handler, params),
        CASE handler = "handle_list_tools" -> handle_list_tools(params, reg)
          [] handler = "handle_execute_tool" -> handle_execute_tool(params, reg)
          [] handler = "handle_echo" -> handle_echo(params)
          [] handler = "handle_fail" -> RaiseExc("boom", <<>>)
          [] handler = "handle_typed" ->
                 RaiseMCP(INVALID_REQUEST, "Invalid Request", JNull, <<>>))

(***************************************************************************)
(* The engine: process_single_jsonrpc and process_jsonrpc.                 *)
(***************************************************************************)
Out(resp, c) == [resp |-> resp, calls |-> c]

bad_structure_TypeOnly(request_data) == request_data.t # "obj"

\* not isinstance(request_data, dict) or request_data.get("jsonrpc") != "2.0"
bad_structure(request_data) ==
    request_data.t # "obj" \/ Get(request_data, "jsonrpc") # JStr("2.0")

\* not method or not isinstance(method, str)
bad_method(method) == Falsy(method) \/ method.t # "str"

is_notification_KeyOnly(request_data) == "id" \notin DOMAIN request_data.o

\* is_notification = request_id is None, request_id = request_data.get("id")
is_notification(request_data) == Get(request_data, "id") = JNull

\* lines 93-127: the response to the outcome h of the matched handler
Respond(request_data, h) ==
    IF is_notification(request_data)
    THEN Out(None, h.calls)
    ELSE CASE h.kind = "return" ->
                 Out(JSONRPCSuccessResponse(Get(request_data, "id"), h.value), h.calls)
           [] h.kind = "mcp" ->
                 Out(JSONRPCErrorResponse(Get(request_data, "id"),
                         JSONRPCErrorDetail(h.code, h.message, h.data)), h.calls)
           [] h.kind = "exc" ->
                 Out(JSONRPCErrorResponse(Get(request_data, "id"),
                         JSONRPCErrorDetail(INTERNAL_ERROR,
                             "Internal error: " \o h.message, JNull)), h.calls)

NotFound_Internal(request_data) ==
    IF is_notification(request_data)
    THEN Out(None, <<>>)
    ELSE Out(JSONRPCErrorResponse(Get(request_data, "id"),
                 JSONRPCErrorDetail(INTERNAL_ERROR, "Internal error", JNull)), <<>>)

\* lines 80-90: the response when the method is not in mcp_methods
NotFound(request_data) ==
    IF is_notification(request_data)
    THEN Out(None, <<>>)
    ELSE Out(JSONRPCErrorResponse(Get(request_data, "id"),
                 JSONRPCErrorDetail(METHOD_NOT_FOUND, "Method not found", JNull)), <<>>)

process_single_jsonrpc_SuppressFirst(request_data, methods, reg) ==
    IF request_data.t = "obj" /\ Get(request_data, "id") = JNull
       /\ (bad_structure(request_data) \/ bad_method(Get(request_data, "method")))
    THEN Out(None, <<>>)
    ELSE IF bad_structure(request_data)
    THEN Out(JSONRPCErrorResponse(JNull,
                 JSONRPCErrorDetail(INVALID_REQUEST, "Invalid Request", JNull)), <<>>)
    ELSE IF bad_method(Get(request_data, "method"))
    THEN Out(JSONRPCErrorResponse(Get(request_data, "id"),
                 JSONRPCErrorDetail(INVALID_REQUEST,
                     "Invalid Request: method must be a string", JNull)), <<>>)
    ELSE IF Get(request_data, "method").s \notin DOMAIN methods
    THEN NotFound(request_data)
    ELSE Respond(request_data,
             RunMethod(methods[Get(request_data, "method").s],
                       GetDefault(request_data, "params", EmptyDict), reg))

process_single_jsonrpc(request_data, methods, reg) ==
    IF bad_structure(request_data)
    THEN Out(JSONRPCErrorResponse(JNull,
                 JSONRPCErrorDetail(INVALID_REQUEST, "Invalid Request", JNull)), <<>>)
    ELSE IF bad_method(Get(request_data, "method"))
    THEN Out(JSONRPCErrorResponse(Get(request_data, "id"),
                 JSONRPCErrorDetail(INVALID_REQUEST,
                     "Invalid Request: method must be a string", JNull)), <<>>)
    ELSE IF Get(request_data, "method").s \notin DOMAIN methods
    THEN NotFound(request_data)
    ELSE Respond(request_data,
             RunMethod(methods[Get(request_data, "method").s],
                       GetDefault(request_data, "params", EmptyDict), reg))

Collect_Placeholder(acc, one) ==
    [responses |-> Append(acc.responses, one.resp), calls |-> acc.calls \o one.calls]

Collect_StopAtFailure(acc, one) ==
    IF \E i \in 1..Len(acc.responses) :
           /\ "error" \in DOMAIN acc.responses[i]
           /\ acc.responses[i].error.code = INTERNAL_ERROR
    THEN acc
    ELSE [responses |-> IF one.resp # None THEN Append(acc.responses, one.resp)
                        ELSE acc.responses,
          calls |-> acc.calls \o one.calls]

Collect_Reversed(acc, one) ==
    [responses |-> IF one.resp # None THEN <<one.resp>> \o acc.responses
                   ELSE acc.responses,
     calls |-> acc.calls \o one.calls]

\* responses.append(resp) if resp
Collect(acc, one) ==
    [responses |-> IF one.resp # None THEN Append(acc.responses, one.resp)
                   ELSE acc.responses,
     calls |-> acc.calls \o one.calls]

\* the loop of process_jsonrpc over the items of a batch, from item i on;
\* acc holds the responses collected and the handlers invoked so far
RECURSIVE BatchLoop(_, _, _, _, _)
BatchLoop(items, i, acc, methods, reg) ==
    IF i > Len(items)
    THEN acc
    ELSE BatchLoop(items, i + 1,
             Collect(acc, process_single_jsonrpc(items[i], methods, reg)),
             methods, reg)

NoneYet == [responses |-> <<>>, calls |-> <<>>]

\* return JSONRPCBatchResponse(root=responses) if responses else None
BatchResult(loop) ==
    Out(IF loop.responses # <<>> THEN JSONRPCBatchResponse(loop.responses) ELSE None,
        loop.calls)

process_jsonrpc_NoEmptyCheck(request_data, methods, reg) ==
    IF request_data.t = "arr"
    THEN BatchResult(BatchLoop(request_data.a, 1, NoneYet, methods, reg))
    ELSE process_single_jsonrpc(request_data, methods, reg)

process_jsonrpc(request_data, methods, reg) ==
    IF request_data.t = "arr"
    THEN IF request_data.a = <<>>
         THEN Out(JSONRPCErrorResponse(JNull,
                      JSONRPCErrorDetail(INVALID_REQUEST,
                          "Invalid Request: empty batch", JNull)), <<>>)
         ELSE BatchResult(BatchLoop(request_data.a, 1, NoneYet, methods, reg))
    ELSE process_single_jsonrpc(request_data, methods, reg)

(***************************************************************************)
(* Error mapping and the unified responder (app/core/unified_errors.py).   *)
(***************************************************************************)
HTTP_TO_JSONRPC_MethodNotFound ==
    (400 :> -32600) @@ (404 :> -32601) @@ (401 :> -32000) @@ (403 :> -32001)
        @@ (422 :> -32602) @@ (500 :> -32603)

HTTP_TO_JSONRPC_Unprocessable ==
    (400 :> -32600) @@ (404 :> -32800) @@ (401 :> -32000) @@ (403 :> -32001)
        @@ (422 :> -32600) @@ (500 :> -32603)

HTTP_TO_JSONRPC ==
    (400 :> -32600) @@ (404 :> -32800) @@ (401 :> -32000) @@ (403 :> -32001)
        @@ (422 :> -32602) @@ (500 :> -32603)

JSONRPC_TO_HTTP_BadRequest ==
    (-32600 :> 400) @@ (-32601 :> 404) @@ (-32602 :> 400) @@ (-32603 :> 500)
        @@ (-32700 :> 400) @@ (-32800 :> 404) @@ (-32000 :> 401) @@ (-32001 :> 403)

JSONRPC_TO_HTTP ==
    (-32600 :> 400) @@ (-32601 :> 404) @@ (-32602 :> 422) @@ (-32603 :> 500)
        @@ (-32700 :> 400) @@ (-32800 :> 404) @@ (-32000 :> 401) @@ (-32001 :> 403)

http_to_jsonrpc(status_code) ==
    IF status_code \in DOMAIN HTTP_TO_JSONRPC
    THEN HTTP_TO_JSONRPC[status_code] ELSE -32603

jsonrpc_to_http(error_code) ==
    IF error_code \in DOMAIN JSONRPC_TO_HTTP
    THEN JSONRPC_TO_HTTP[error_code] ELSE 500

\* an exception raised inside the converter or the responder
Raised(message) == [raised |-> TRUE, message |-> message]
IsRaised(x) == "raised" \in DOMAIN x

\* the model validates its fields: detail is Optional[Dict[str, Any]]
UnifiedErrorResponse(status, error_code, message, detail, source) ==
    IF detail.t \notin {"null", "obj"}
    THEN Raised("ValidationError: detail: Input should be a valid dictionary")
    ELSE [status |-> status, error_code |-> error_code, message |-> message,
          detail |-> detail, source |-> source]

JSONResponse(status_code, content) == [status |-> status_code, body |-> content]

to_http_response(u) ==
    JSONResponse(u.status,
        JObj([error_code |-> u.error_code, message |-> u.message, detail |-> u.detail]))

to_jsonrpc_error(u, request_id) ==
    JSONRPCErrorResponse(request_id,
        JSONRPCErrorDetail(u.error_code, u.message, u.detail))

from_mcp_error_MappedCode(e) ==
    UnifiedErrorResponse(jsonrpc_to_http(e.code), http_to_jsonrpc(jsonrpc_to_http(e.code)),
        e.message, e.data, "jsonrpc")

from_mcp_error(e) ==
    UnifiedErrorResponse(jsonrpc_to_http(e.code), e.code, e.message, e.data, "jsonrpc")

\* exc.detail is a string (JStr) or some other JSON value
from_http_exception(e) ==
    UnifiedErrorResponse(e.status_code, http_to_jsonrpc(e.status_code),
        IF e.detail.t = "str" THEN e.detail.s ELSE "HTTP Error",
        IF e.detail.t # "str" THEN e.detail ELSE JNull, "http")

unexpected_error_NoDetail(exc) ==
    UnifiedErrorResponse(500, -32603, "An unexpected error occurred", JNull, "http")

\* lines 174-180: the response built for any other exception
unexpected_error(exc) ==
    UnifiedErrorResponse(500, -32603, "An unexpected error occurred",
                         JObj([error |-> JStr(exc.message)]), "http")

\* the path of the JSON-RPC route as the application mounts it, in segments:
\* include_router(api_router), prefix "/mcp", route "/jsonrpc"
RoutePath == <<"mcp", "jsonrpc">>

\* "/api/v1/mcp/jsonrpc" in request.url.path
JsonRpcTag == <<"api", "v1", "mcp", "jsonrpc">>
PathContains(path, part) ==
    \E k \in 0..(Len(path) - Len(part)) :
        \A i \in 1..Len(part) : path[k + i] = part[i]

\* request_id = body.get("id") inside try/except: None when the body is not
\* JSON or not an object
BodyId(body) ==
    IF body.kind = "json" /\ body.value.t = "obj" THEN Get(body.value, "id") ELSE JNull

\* the two renderings of a Unified Error Response; an exception raised while
\* it was built leaves the responder
Render(is_jsonrpc, u, request_id) ==
    IF IsRaised(u) THEN u
    ELSE IF is_jsonrpc
    THEN JSONResponse(200, JObj(to_jsonrpc_error(u, request_id)))
    ELSE to_http_response(u)

\* unified_exception_handler; body is the request body as request.json() sees it
unified_exception_handler(path, exc, body) ==
    CASE exc.kind = "mcp" ->
            Render(PathContains(path, JsonRpcTag), from_mcp_error(exc), BodyId(body))
      [] exc.kind = "http" ->
            Render(PathContains(path, JsonRpcTag), from_http_exception(exc), JNull)
      [] exc.kind = "exc" ->
            Render(PathContains(path, JsonRpcTag), unexpected_error(exc), JNull)

(***************************************************************************)
(* The POST /jsonrpc route: handle_mcp_request, with the application's     *)
(* exception handler (main.py) around it.                                  *)
(***************************************************************************)
NotReached == [t |-> "not_reached"]

InvalidJson == [kind |-> "invalid_json", value |-> JNull]
NotUtf8 == [kind |-> "not_utf8", value |-> JNull]
JsonBody(v) == [kind |-> "json", value |-> v]

Served(e, c, h) == [engine |-> e, calls |-> c, http |-> h]

\* model_dump() of what process_jsonrpc returned
ModelDump(response) ==
    IF "root" \in DOMAIN response THEN JArr(response.root) ELSE JObj(response)

parse_failure_InvalidRequest(message) ==
    JSONResponse(200, JObj(to_jsonrpc_error(
        UnifiedErrorResponse(400, INVALID_REQUEST, message, JNull, "jsonrpc"), JNull)))

\* the response to a wrong content type and to a JSONDecodeError
parse_failure(message) ==
    JSONResponse(200, JObj(to_jsonrpc_error(
        UnifiedErrorResponse(400, PARSE_ERROR, message, JNull, "jsonrpc"), JNull)))

\* lines 166-171: the response once process_jsonrpc has returned out
Processed(body, out) ==
    IF out.resp = None
    THEN Served(None, out.calls,
             unified_exception_handler(RoutePath,
                 RaiseExc("'NoneType' object has no attribute 'model_dump'", <<>>), body))
    ELSE Served(out.resp, out.calls, JSONResponse(200, ModelDump(out.resp)))

handle_mcp_request(content_type, body, methods, reg) ==
    IF content_type # JStr("application/json")
    THEN Served(NotReached, <<>>, parse_failure("Content type must be application/json"))
    ELSE IF body.kind = "invalid_json"
    THEN Served(NotReached, <<>>, parse_failure("Parse error: Invalid JSON"))
    ELSE IF body.kind = "not_utf8"
    THEN Served(NotReached, <<>>,
             unified_exception_handler(RoutePath,
                 RaiseExc("'utf-8' codec can't decode byte", <<>>), body))
    ELSE Processed(body, process_jsonrpc(body.value, methods, reg))

(***************************************************************************)
(* Inputs.                                                                 *)
(***************************************************************************)
MaxBatch == 3

\* the entries an envelope may carry; Absent leaves the key out
Versions == {Absent, JStr("2.0"), JStr("1.0"), JInt(2)}
MethodVals == {Absent, JStr(""), JInt(7), JStr("echo"), JStr("list_tools"),
               JStr("execute_tool"), JStr("ping"), JStr("nosuch")}
IdVals == {Absent, JNull, JStr("a"), JStr("1"), JInt(1), JInt(0)}

Msg(v) == JObj([message |-> v])
CommonParams ==
    {Absent, JNull, EmptyDict, JArr(<<>>), Msg(JStr("hi")), Msg(JStr("")), Msg(JInt(5))}
ToolCallParams ==
    {JObj([name |-> JStr("echo"), parameters |-> Msg(JStr("hi"))]),
     JObj([name |-> JStr("echo"), parameters |-> JObj([message |-> JStr("hi"), extra |-> JInt(1)])]),
     JObj([name |-> JStr("echo"), parameters |-> Msg(JStr("5"))]),
     JObj([name |-> JStr("echo"), parameters |-> Msg(JInt(5))]),
     JObj([name |-> JStr("echo")]),
     JObj([name |-> JStr("echo"), parameters |-> JStr("x")]),
     JObj([name |-> JStr("boom")]),
     JObj([name |-> JStr("nosuch")]),
     JObj([name |-> JInt(5)]),
     JObj([name |-> JStr("")]),
     JObj([parameters |-> Msg(JStr("hi"))])}
\* the params that the envelope is tried with: all of them where the method is
\* dispatched, two where the shape check rejects the envelope before it reads them
ParamVals(v, m) ==
    IF v # JStr("2.0") \/ m \in {Absent, JStr(""), JInt(7)}
    THEN {Absent, Msg(JStr("hi"))}
    ELSE IF m = JStr("execute_tool") THEN CommonParams \cup ToolCallParams
    ELSE CommonParams

Envelope(v, m, i, p) == MkObj([jsonrpc |-> v, method |-> m, id |-> i, params |-> p])

Envelopes ==
    UNION {{Envelope(v, m, i, p) : i \in IdVals, p \in ParamVals(v, m)} :
               v \in Versions, m \in MethodVals}

Scalars == {JStr("x"), JInt(7), JBool(TRUE), JNull}

V2 == JStr("2.0")
BatchItems ==
    {Envelope(V2, JStr("echo"), JStr("a"), Msg(JStr("hi"))),
     Envelope(V2, JStr("echo"), Absent, Msg(JStr("hi"))),
     Envelope(V2, JStr("nosuch"), JNull, Absent),
     Envelope(V2, JStr("nosuch"), JStr("b"), Absent),
     Envelope(V2, JStr("echo"), JStr("c"), Absent),
     Envelope(V2, JStr("execute_tool"), JInt(2), JObj([name |-> JStr("boom")])),
     Envelope(V2, JStr("ping"), JStr("p"), Absent),
     Envelope(JStr("1.0"), JStr("echo"), JStr("v"), Msg(JStr("hi"))),
     Envelope(Absent, JStr("echo"), Absent, Msg(JStr("hi"))),
     Envelope(V2, Absent, JStr("m"), Absent),
     Envelope(V2, Absent, Absent, Absent),
     JInt(7)}

\* the items that the batches of more than two items are made of
CoreItems ==
    {Envelope(V2, JStr("echo"), JStr("a"), Msg(JStr("hi"))),
     Envelope(V2, JStr("echo"), Absent, Msg(JStr("hi"))),
     Envelope(V2, JStr("nosuch"), JStr("b"), Absent),
     Envelope(V2, JStr("execute_tool"), JInt(2), JObj([name |-> JStr("boom")])),
     Envelope(Absent, JStr("echo"), Absent, Msg(JStr("hi")))}

BatchItemsFor(n) == IF n <= 2 THEN BatchItems ELSE CoreItems

Batches == {JArr(q) : q \in UNION {[1..n -> BatchItemsFor(n)] : n \in 0..MaxBatch}}

Bodies == {InvalidJson, NotUtf8} \cup {JsonBody(v) : v \in Scalars \cup Envelopes \cup Batches}

Requests ==
    {[content_type |-> JStr("application/json"), body |-> b] : b \in Bodies}
    \cup {[content_type |-> c, body |-> b] :
              c \in {JNull, JStr("text/plain")},
              b \in {InvalidJson, JsonBody(Envelope(V2, JStr("echo"), JStr("a"), Msg(JStr("hi"))))}}

\* the methods and tools that get registered
MethodNames == {"ping"}

ToolRegistrations ==
    {[name |-> "echo", handler |-> "echo",
      parameters |-> <<ToolParameter("message", "str", TRUE, JNull)>>],
     [name |-> "echo", handler |-> "ok",
      parameters |-> <<ToolParameter("message", "string", TRUE, JNull),
                       ToolParameter("count", "integer", FALSE, JInt(1))>>],
     [name |-> "boom", handler |-> "raise", parameters |-> <<>>]}

(***************************************************************************)
(* The SSE manager (app/services/sse.py): one asyncio.Queue per registered *)
(* client, filled by send_event and broadcast and drained by the generator *)
(* that client_events returns.                                             *)
(***************************************************************************)
MaxQueues == 2     \* asyncio.Queue objects created in a run
MaxQueued == 2     \* messages put on one queue in a run
MaxStreams == 1    \* generators created in a run

\* json.dumps(data), for the payloads that are sent
json_dumps(data) ==
    CASE data = JObj([type |-> JStr("connection_established")]) ->
             "{\"type\": \"connection_established\"}"
      [] data = JObj([message |-> JStr("broadcast message")]) ->
             "{\"message\": \"broadcast message\"}"
      [] data = EmptyDict -> "{}"

\* message = {"data": json.dumps(data)}; if event: message["event"] = event
Message(data, event) ==
    IF Falsy(event) THEN [data |-> json_dumps(data)]
    ELSE [data |-> json_dumps(data), event |-> event.s]

\* self.clients = {}
NoClients == <<>>

\* client_id in self.clients
HasClient(cl, client_id) == \E i \in 1..Len(cl) : cl[i].client_id = client_id

\* self.clients[client_id]
QueueOf(cl, client_id) ==
    cl[CHOOSE i \in 1..Len(cl) : cl[i].client_id = client_id].queue

\* asyncio.Queue(): its items; `sent` keeps every message ever put on it
NewQueue == [items |-> <<>>, sent |-> <<>>]

\* await queue.put(message); the queue is unbounded, put never waits
put(qs, q, message) ==
    [qs EXCEPT ![q] = [items |-> Append(@.items, message),
                       sent |-> IF message = None THEN @.sent
                                ELSE Append(@.sent, message)]]

\* del self.clients[client_id]
Remove(cl, client_id) == SelectSeq(cl, LAMBDA e : e.client_id # client_id)

send_event(cl, qs, client_id, data, event) ==
    IF ~HasClient(cl, client_id)
    THEN [ok |-> FALSE, queues |-> qs]
    ELSE [ok |-> TRUE, queues |-> put(qs, QueueOf(cl, client_id), Message(data, event))]

Excluded_Never(exclude, client_id) == FALSE

\* exclude = exclude or []; client_id in exclude
Excluded(exclude, client_id) ==
    /\ exclude.t = "arr"
    /\ \E i \in 1..Len(exclude.a) : exclude.a[i] = JStr(client_id)

\* for client_id in self.clients: ... await self.send_event(...), from entry i on
RECURSIVE broadcast(_, _, _, _, _, _)
broadcast(cl, i, qs, data, event, exclude) ==
    IF i > Len(cl) THEN qs
    ELSE broadcast(cl, i + 1,
             IF Excluded(exclude, cl[i].client_id) THEN qs
             ELSE send_event(cl, qs, cl[i].client_id, data, event).queues,
             data, event, exclude)

\* the generators of client_events
StreamIds == 1..MaxStreams
NoStream == [state |-> "none"]

\* client_events(client_id): the body runs at the first __anext__; opened_on
\* keeps the queue the client had when the generator was made (0: none)
Generator(cl, client_id) ==
    [state |-> "created", client_id |-> client_id, queue |-> 0,
     opened_on |-> IF HasClient(cl, client_id) THEN QueueOf(cl, client_id) ELSE 0,
     delivered |-> <<>>]

(***************************************************************************)
(* The session manager (app/services/session_manager.py) and the store it  *)
(* talks to.  A call runs without another call of the manager in between.  *)
(***************************************************************************)
max_redis_connection_attempts == 5
SESSION_TTL == 3600

MaxConnects == 6    \* the attempt counter goes no further
MaxReconnects == 2  \* _delayed_reconnect tasks pending at a time
MaxSessions == 2    \* session ids in use at a time
MaxTime == 2        \* seconds on the clock

NoPool == "None"
NoTask == "None"
NoKeys == <<>>
NoExpiry == -1

\* what one call of connect() came to: the fields it leaves, whether it pinged
\* the store, whether it created a _delayed_reconnect task, whether it raised
Connected(pool, attempts, task, pinged, scheduled, raised) ==
    [redis_pool |-> pool, attempts |-> attempts, cleanup_task |-> task,
     pinged |-> pinged, scheduled |-> scheduled, raised |-> raised]

connect_RetryAtMaximum(pool, attempts, task, up) ==
    IF pool # NoPool
    THEN Connected(pool, attempts, task, FALSE, FALSE, FALSE)
    ELSE IF up
    THEN Connected("pool", 0, "monitoring_task", TRUE, FALSE, FALSE)
    ELSE Connected("pool", attempts + 1, task, TRUE, TRUE, FALSE)

\* await self.connect(): the pool is assigned before the ping, and the except
\* branch leaves it assigned
connect(pool, attempts, task, up) ==
    IF pool # NoPool
    THEN Connected(pool, attempts, task, FALSE, FALSE, FALSE)
    ELSE IF up
    THEN Connected("pool", 0, "monitoring_task", TRUE, FALSE, FALSE)
    ELSE Connected("pool", attempts + 1, task, TRUE,
                   attempts + 1 < max_redis_connection_attempts,
                   ~(attempts + 1 < max_redis_connection_attempts))

\* `if self.redis_pool is None: await self.connect()` at the head of an operation
EnsureConnected(pool, attempts, task, up) ==
    IF pool = NoPool THEN connect(pool, attempts, task, up)
    ELSE Connected(pool, attempts, task, FALSE, FALSE, FALSE)

\* r.exists(f"session:{session_id}"): a key is gone once its time has come
Exists(store, t, session_id) ==
    /\ session_id \in DOMAIN store.keys
    /\ store.keys[session_id] = NoExpiry \/ t < store.keys[session_id]

\* r.set(key, value, ex=ttl if ttl > 0 else None)
Set(store, t, session_id, ttl) ==
    [store EXCEPT !.keys =
        [k \in DOMAIN store.keys \cup {session_id} |->
            IF k = session_id THEN (IF ttl > 0 THEN t + ttl ELSE NoExpiry)
            ELSE store.keys[k]]]

\* r.delete(key)
Delete(store, session_id) ==
    [store EXCEPT !.keys = [k \in DOMAIN store.keys \ {session_id} |-> store.keys[k]]]

\* r.sadd("sessions", session_id), r.srem("sessions", session_id)
Sadd(store, session_id) == [store EXCEPT !.sessions = @ \cup {session_id}]
Srem(store, ids) == [store EXCEPT !.sessions = @ \ ids]

\* ttl = settings.SESSION_TTL if ttl is None
TtlOf(ttl) == IF ttl = JNull THEN SESSION_TTL ELSE ttl.n

expired_sessions_All(tracked, store, t) == tracked

\* the session ids of the memory cache whose key the store no longer has
expired_sessions(tracked, store, t) ==
    {session_id \in tracked : ~Exists(store, t, session_id)}

(***************************************************************************)
(* The resource manager (app/services/resource_manager.py).  A URI         *)
(* "resource://{resource_type}/{content_hash}{extension}" is kept by its   *)
(* three parts, a storage path by its directories and its file name.       *)
(***************************************************************************)
MAX_RESOURCE_SIZE_BYTES == 104857600

MaxClock == 2   \* seconds on the wall clock

NoResources == <<>>
NoFiles == <<>>

\* hashlib.sha256(content).hexdigest()
sha256(content) ==
    CASE content = "test binary content" ->
             "56681959d2de970a2dbee51710bb02862bec0a603b725443b92063c02b5f0a0c"
      [] content = "a" ->
             "ca978112ca1bbdcafac231b39a23dc4da786eff8147c4e72b9807785afee48bb"

generate_resource_uri(content_hash, resource_type, extension) ==
    [resource_type |-> resource_type, content_hash |-> content_hash,
     extension |-> extension]

\* for a URI that generate_resource_uri made, with an extension that is empty
\* or starts with a dot
parse_resource_uri(uri) ==
    [resource_type |-> uri.resource_type, resource_id |-> uri.content_hash,
     extension |-> uri.extension]

get_storage_path(uri, temp) ==
    [base_dir |-> IF temp THEN "temp" ELSE "permanent",
     resource_type |-> parse_resource_uri(uri).resource_type,
     name |-> parse_resource_uri(uri).resource_id \o parse_resource_uri(uri).extension]

\* f"{storage_path}.meta"
MetaPath(path) == [path EXCEPT !.name = @ \o ".meta"]

\* datetime values, and what isoformat() makes of them
DateTime(t) == [datetime |-> t]
isoformat(t) == [iso |-> t]

\* dict.update
Update(d, e) ==
    [k \in DOMAIN d \cup DOMAIN e |-> IF k \in DOMAIN e THEN e[k] ELSE d[k]]

\* del d[k]
Del(d, k) == [x \in DOMAIN d \ {k} |-> d[x]]

\* open(path, "wb").write(content)
Write(fs, path, content) == Update(fs, path :> content)

\* what a call leaves and gives: the metadata cache, the files, the result
Done(md, fs, result) == [metadata |-> md, files |-> fs, result |-> result]

\* the metadata that store_binary keeps for the resource
Prepared(meta, content, resource_type, ttl, t) ==
    Update(Update(IF meta = JNull THEN <<>> ELSE meta,
                  [created_at |-> isoformat(t), size |-> content.size,
                   hash |-> sha256(content.bytes), type |-> resource_type]),
           IF ~Falsy(ttl) THEN [expires_at |-> isoformat(t + ttl.n)] ELSE <<>>)

store_binary(md, fs, t, content, resource_type, meta, extension, ttl) ==
    IF content.size > MAX_RESOURCE_SIZE_BYTES
    THEN Done(md, fs, "ResourceQuotaExceededError")
    ELSE LET uri == generate_resource_uri(sha256(content.bytes), resource_type, extension)
             is_temp == ttl # JNull
             storage_path == get_storage_path(uri, is_temp)
         IN  Done(Update(md, uri :> Prepared(meta, content, resource_type, ttl, t)),
                  Write(Write(fs, storage_path, content.bytes),
                        MetaPath(storage_path), "metadata"),
                  uri)

\* self.metadata[uri].get("expiry") is not None
HasExpiry(meta) == "expiry" \in DOMAIN meta

\* self.metadata[uri].get("expiry") and now > self.metadata[uri]["expiry"]
IsExpired(meta, t) == HasExpiry(meta) /\ t > meta["expiry"].datetime

delete_resource(md, fs, uri) ==
    IF uri \notin DOMAIN md
    THEN Done(md, fs, FALSE)
    ELSE Done(Del(md, uri), Del(fs, get_storage_path(uri, HasExpiry(md[uri]))), TRUE)

get_binary(md, fs, t, uri) ==
    IF uri \notin DOMAIN md
    THEN Done(md, fs, None)
    ELSE IF IsExpired(md[uri], t)
    THEN Done(delete_resource(md, fs, uri).metadata, delete_resource(md, fs, uri).files,
              None)
    ELSE IF get_storage_path(uri, HasExpiry(md[uri])) \notin DOMAIN fs
    THEN Done(md, fs, None)
    ELSE Done(md, fs, [bytes |-> fs[get_storage_path(uri, HasExpiry(md[uri]))]])

\* self.metadata.get(uri)
get_metadata(md, uri) == IF uri \in DOMAIN md THEN md[uri] ELSE None

update_metadata(md, uri, meta) ==
    IF uri \notin DOMAIN md
    THEN [metadata |-> md, result |-> FALSE]
    ELSE [metadata |-> Update(md, uri :> Update(md[uri], meta)), result |-> TRUE]

\* expired_uris = [uri for uri, meta in self.metadata.items() if ...]
expired_uris(md, t) == {uri \in DOMAIN md : IsExpired(md[uri], t)}

\* for uri in expired_uris: await self.delete_resource(uri)
RECURSIVE DeleteEach(_, _, _)
DeleteEach(md, fs, uris) ==
    IF uris = {} THEN Done(md, fs, 0)
    ELSE LET uri == CHOOSE u \in uris : TRUE
             one == delete_resource(md, fs, uri)
         IN  DeleteEach(one.metadata, one.files, uris \ {uri})

clean_expired_resources(md, fs, t) ==
    Done(DeleteEach(md, fs, expired_uris(md, t)).metadata,
         DeleteEach(md, fs, expired_uris(md, t)).files,
         Cardinality(expired_uris(md, t)))

(***************************************************************************)
(* State machine.                                                          *)
(***************************************************************************)
NoRequest == [content_type |-> JNull, body |-> [kind |-> "none", value |-> JNull]]
NoResponse == [status |-> 0, body |-> JNull]

Idle == request = NoRequest

\* the calls made on the registry itself: by the startup code, by a test
NoCall == [op |-> "none"]
RegisterCall(r) ==
    [op |-> "register_tool", name |-> r.name, parameters |-> r.parameters,
     handler |-> r.handler]
ExecuteCall(name, params, outcome) ==
    [op |-> "execute_tool", name |-> name, params |-> params, outcome |-> outcome]
ListCall(result) == [op |-> "list_tools", result |-> result]

Init ==
    /\ mcp_methods = [list_tools |-> "handle_list_tools",
                      execute_tool |-> "handle_execute_tool",
                      echo |-> "handle_echo"]
    /\ tools = <<>>
    /\ request = NoRequest
    /\ engine = NotReached
    /\ calls = <<>>
    /\ http = NoResponse
    /\ registry_call = NoCall
    /\ error_call = NoCall
    /\ clients = NoClients
    /\ queues = <<>>
    /\ streams = [s \in StreamIds |-> NoStream]
    /\ sse_call = NoCall
    /\ redis_pool = NoPool
    /\ cleanup_task = NoTask
    /\ session_keys = {}
    /\ redis_connection_attempts = 0
    /\ reconnects = 0
    /\ redis = [up |-> TRUE, keys |-> NoKeys, sessions |-> {}]
    /\ now = 0
    /\ session_call = NoCall
    /\ metadata = NoResources
    /\ files = NoFiles
    /\ time = 0
    /\ resource_call = NoCall

\* @register_method(name) applied to a handler
RegisterMethod(name, handler) ==
    /\ Idle
    /\ mcp_methods' = [n \in DOMAIN mcp_methods \cup {name} |->
                          IF n = name THEN handler ELSE mcp_methods[n]]
    /\ UNCHANGED <<tools, request, engine, calls, http, registry_call, error_call, sse_vars, session_vars, resource_vars>>

\* registry.register_tool(...)
RegisterTool(r) ==
    /\ Idle
    /\ tools' = register_tool(tools, r.name, r.parameters, r.handler)
    /\ registry_call' = RegisterCall(r)
    /\ UNCHANGED <<mcp_methods, request, engine, calls, http, error_call, sse_vars, session_vars, resource_vars>>

\* what serving the request did is kept until the response has been sent
Record(served) ==
    /\ engine' = served.engine
    /\ calls' = served.calls
    /\ http' = served.http

HandleMcpRequest_Unregistering(req) ==
    /\ Idle
    /\ Record(handle_mcp_request(req.content_type, req.body, mcp_methods, tools))
    /\ request' = req
    /\ tools' = <<>>
    /\ UNCHANGED <<mcp_methods, registry_call, error_call, sse_vars, session_vars, resource_vars>>

\* a POST to the JSON-RPC route is served
HandleMcpRequest(req) ==
    /\ Idle
    /\ Record(handle_mcp_request(req.content_type, req.body, mcp_methods, tools))
    /\ request' = req
    /\ UNCHANGED <<mcp_methods, tools, registry_call, error_call, sse_vars, session_vars, resource_vars>>

\* the response has been sent; what belonged to the request is dropped
SendResponse ==
    /\ ~Idle
    /\ request' = NoRequest
    /\ engine' = NotReached
    /\ calls' = <<>>
    /\ http' = NoResponse
    /\ UNCHANGED <<mcp_methods, tools, registry_call, error_call, sse_vars, session_vars, resource_vars>>

Next ==
    \/ \E name \in MethodNames, handler \in CustomHandlers : RegisterMethod(name, handler)
    \/ \E r \in ToolRegistrations : RegisterTool(r)
    \/ \E req \in Requests : HandleMcpRequest(req)
    \/ SendResponse

Spec == Init /\ [][Next]_vars

(***************************************************************************)
(* The registry on its own: registrations, listings and executions made    *)
(* directly on a ToolRegistry, as the startup code and the tests make them.*)
(***************************************************************************)
\* a tool with one required and one optional parameter of every type of type_map
FormParameters ==
    <<ToolParameter("s", "string", TRUE, JNull),
      ToolParameter("i", "integer", TRUE, JNull),
      ToolParameter("n", "number", TRUE, JNull),
      ToolParameter("b", "boolean", TRUE, JNull),
      ToolParameter("a", "array", TRUE, JNull),
      ToolParameter("o", "object", TRUE, JNull),
      ToolParameter("os", "String", FALSE, JStr("d")),
      ToolParameter("oi", "Integer", FALSE, JInt(1)),
      ToolParameter("on", "number", FALSE, JNull),
      ToolParameter("ob", "boolean", FALSE, JNull),
      ToolParameter("oa", "array", FALSE, JNull),
      ToolParameter("oo", "object", FALSE, JNull)>>

RegistryRegistrations ==
    ToolRegistrations
    \cup {[name |-> "form", handler |-> "ok", parameters |-> FormParameters]}

\* the values a raw parameter is tried with
Values ==
    {JNull, JStr("x"), JStr("5"), JStr("true"), JInt(5), JInt(1), JBool(TRUE),
     JArr(<<>>), EmptyDict}

FormBase ==
    [s |-> JStr("x"), i |-> JInt(5), n |-> JInt(5), b |-> JBool(TRUE),
     a |-> JArr(<<>>), o |-> EmptyDict]

Without(f, keys) == [k \in DOMAIN f \ keys |-> f[k]]
With(f, key, v) == [k \in DOMAIN f \cup {key} |-> IF k = key THEN v ELSE f[k]]

FormParams ==
    {JObj(With(FormBase, key, v)) :
         key \in DOMAIN FormBase \cup {"os", "oi", "on", "ob", "oa", "oo", "extra"},
         v \in Values}
    \cup {JObj(Without(FormBase, keys)) : keys \in {{}, {"s"}, {"i"}, {"s", "i"}, {"a", "o"}}}

EchoParams ==
    {Msg(JStr("hi")), Msg(JStr("")), Msg(JStr("5")), Msg(JInt(5)), Msg(JNull), EmptyDict,
     JObj([message |-> JStr("hi"), extra |-> JInt(1)]),
     JObj([message |-> JStr("hi"), count |-> JStr("5")]),
     JObj([message |-> JStr("hi"), count |-> JStr("x")]),
     JObj([message |-> JStr("hi"), count |-> JNull]),
     JObj([count |-> JInt(5)]),
     JStr("x"), JNull}

\* the raw parameters a tool is executed with, by the name it is called under
ExecParams(name) ==
    CASE name = "echo" -> EchoParams
      [] name = "form" -> FormParams
      [] OTHER -> {EmptyDict, Msg(JStr("hi")), JNull}

ExecNames == {"", "echo", "boom", "form", "nosuch"}

\* Executing and listing leave the registry as it is and their results do not
\* bear on the next call, so they are taken from the states that a
\* registration leaves (or the empty registry): every state of the registry
\* with a result is reached that way.
AfterRegistration == registry_call.op \in {"none", "register_tool"}

\* await registry.execute_tool(name, params)
ExecuteTool(name, params) ==
    /\ AfterRegistration
    /\ registry_call' = ExecuteCall(name, params, execute_tool(tools, name, params))
    /\ UNCHANGED <<mcp_methods, tools, request, engine, calls, http, error_call, sse_vars, session_vars, resource_vars>>

\* registry.list_tools()
ListTools ==
    /\ AfterRegistration
    /\ registry_call' = ListCall(list_tools(tools))
    /\ UNCHANGED <<mcp_methods, tools, request, engine, calls, http, error_call, sse_vars, session_vars, resource_vars>>

RegistryNext ==
    \/ \E r \in RegistryRegistrations : RegisterTool(r)
    \/ \E name \in ExecNames : \E params \in ExecParams(name) : ExecuteTool(name, params)
    \/ ListTools

RegistrySpec == Init /\ [][RegistryNext]_vars

(***************************************************************************)
(* The error mapper, the converter and the responder on their own: calls   *)
(* made directly on ErrorCodeMapping, ErrorConverter and                   *)
(* unified_exception_handler, as the tests make them.                      *)
(***************************************************************************)
\* the codes of the table and some outside it
Codes == {-32600, -32601, -32602, -32603, -32700, -32800, -32000, -32001,
          -32099, -32002, 0, 404}

\* the statuses of the table and some outside it
Statuses == {400, 404, 401, 403, 422, 500, 200, 409, 418, 503}

ErrorData == {JNull, JObj([uri |-> JStr("resource://test.png")])}

\* protocol errors, by the class they are raised as
McpErrors ==
    {[class |-> "InvalidRequestError", exc |-> InvalidRequestError("Invalid Request", d)] :
         d \in ErrorData}
    \cup {[class |-> "MethodNotFoundError", exc |-> MethodNotFoundError("Method not found", <<>>)]}
    \cup {[class |-> "InvalidParamsError", exc |-> InvalidParamsError("Invalid params", d, <<>>)] :
              d \in ErrorData}
    \cup {[class |-> "InternalError", exc |-> InternalError("Internal error", d)] :
              d \in ErrorData}
    \cup {[class |-> "ParseError", exc |-> ParseError("Parse error", d)] : d \in ErrorData}
    \cup {[class |-> "ResourceError", exc |-> ResourceError("Resource error", d)] :
              d \in ErrorData}
    \cup {[class |-> "ResourceNotFoundError",
           exc |-> ResourceNotFoundError("resource://test.png", d)] : d \in ErrorData}
    \cup {[class |-> "MCPError", exc |-> MCPError(c, "custom", d)] :
              c \in {-32000, -32001, -32099, 0}, d \in ErrorData}

HTTPException(status_code, detail) ==
    [kind |-> "http", status_code |-> status_code, detail |-> detail]

HttpDetails ==
    {JStr("Not found"), JStr(""), JObj([reason |-> JStr("expired")]),
     JArr(<<JStr("field required")>>), JInt(5)}

HttpExceptions == {HTTPException(st, d) : st \in Statuses \ {200}, d \in HttpDetails}

Unexpected == {RaiseExc("boom", <<>>), RaiseExc("", <<>>)}

\* the paths the responder is called for: the JSON-RPC route as the application
\* mounts it, a path that holds the tag the responder looks for, a REST path
Paths == {RoutePath, JsonRpcTag, <<"api", "v1", "resources">>}

FailedBodies ==
    {JsonBody(Envelope(V2, JStr("echo"), JStr("test-123"), Absent)), InvalidJson}

Failures == {x.exc : x \in McpErrors} \cup HttpExceptions \cup Unexpected

\* ErrorCodeMapping.jsonrpc_to_http(error_code)
JsonrpcToHttp(c) ==
    /\ error_call' = [op |-> "jsonrpc_to_http", input |-> c, output |-> jsonrpc_to_http(c)]
    /\ UNCHANGED <<mcp_methods, tools, request, engine, calls, http, registry_call, sse_vars, session_vars, resource_vars>>

\* ErrorCodeMapping.http_to_jsonrpc(status_code)
HttpToJsonrpc(st) ==
    /\ error_call' = [op |-> "http_to_jsonrpc", input |-> st, output |-> http_to_jsonrpc(st)]
    /\ UNCHANGED <<mcp_methods, tools, request, engine, calls, http, registry_call, sse_vars, session_vars, resource_vars>>

\* ErrorConverter.from_mcp_error(error)
FromMcpError(x) ==
    /\ error_call' = [op |-> "from_mcp_error", class |-> x.class, input |-> x.exc,
                      output |-> from_mcp_error(x.exc)]
    /\ UNCHANGED <<mcp_methods, tools, request, engine, calls, http, registry_call, sse_vars, session_vars, resource_vars>>

\* ErrorConverter.from_http_exception(exc)
FromHttpException(e) ==
    /\ error_call' = [op |-> "from_http_exception", input |-> e,
                      output |-> from_http_exception(e)]
    /\ UNCHANGED <<mcp_methods, tools, request, engine, calls, http, registry_call, sse_vars, session_vars, resource_vars>>

\* await unified_exception_handler(request, exc)
HandleException(path, exc, body) ==
    /\ error_call' = [op |-> "unified_exception_handler", path |-> path, exc |-> exc,
                      body |-> body,
                      output |-> unified_exception_handler(path, exc, body)]
    /\ UNCHANGED <<mcp_methods, tools, request, engine, calls, http, registry_call, sse_vars, session_vars, resource_vars>>

ErrorNext ==
    \/ \E c \in Codes : JsonrpcToHttp(c)
    \/ \E st \in Statuses : HttpToJsonrpc(st)
    \/ \E x \in McpErrors : FromMcpError(x)
    \/ \E e \in HttpExceptions : FromHttpException(e)
    \/ \E path \in Paths, exc \in Failures, body \in FailedBodies :
           HandleException(path, exc, body)

ErrorSpec == Init /\ [][ErrorNext]_vars

(***************************************************************************)
(* The SSE manager called directly, as tests/test_services/test_sse.py and *)
(* the events route call it, with the generators advanced by their         *)
(* consumers.                                                              *)
(***************************************************************************)
rpc_vars == <<mcp_methods, tools, request, engine, calls, http, registry_call, error_call>>

ClientIds == {"test-client-1", "test-client-2"}

Payloads == {JObj([message |-> JStr("broadcast message")])}

EventNames == {JNull, JStr(""), JStr("system")}

Excludes ==
    {JNull, JArr(<<JStr("test-client-2")>>),
     JArr(<<JStr("test-client-3"), JStr("test-client-1")>>)}

\* await sse_manager.register_client(client_id)
RegisterClient(client_id) ==
    /\ IF HasClient(clients, client_id)
       THEN UNCHANGED <<clients, queues>>
       ELSE /\ Len(queues) < MaxQueues
            /\ queues' = Append(queues, NewQueue)
            /\ clients' = Append(clients, [client_id |-> client_id,
                                           queue |-> Len(queues) + 1])
    /\ sse_call' = [op |-> "register_client", client_id |-> client_id,
                    result |-> client_id]
    /\ UNCHANGED <<rpc_vars, session_vars, resource_vars, streams>>

\* await sse_manager.unregister_client(client_id)
UnregisterClient(client_id) ==
    /\ IF HasClient(clients, client_id)
       THEN /\ queues' = put(queues, QueueOf(clients, client_id), None)
            /\ clients' = Remove(clients, client_id)
       ELSE UNCHANGED <<clients, queues>>
    /\ sse_call' = [op |-> "unregister_client", client_id |-> client_id,
                    queue |-> IF HasClient(clients, client_id)
                              THEN QueueOf(clients, client_id) ELSE 0]
    /\ UNCHANGED <<rpc_vars, session_vars, resource_vars, streams>>

Room(q) == Len(queues[q].sent) < MaxQueued

\* await sse_manager.send_event(client_id, data, event)
SendEvent(client_id, data, event) ==
    /\ HasClient(clients, client_id) => Room(QueueOf(clients, client_id))
    /\ queues' = send_event(clients, queues, client_id, data, event).queues
    /\ sse_call' = [op |-> "send_event", client_id |-> client_id,
                    message |-> Message(data, event),
                    result |-> send_event(clients, queues, client_id, data, event).ok]
    /\ UNCHANGED <<rpc_vars, session_vars, resource_vars, clients, streams>>

\* await sse_manager.broadcast(data, event, exclude)
Broadcast(data, event, exclude) ==
    /\ \A i \in 1..Len(clients) : Room(clients[i].queue)
    /\ queues' = broadcast(clients, 1, queues, data, event, exclude)
    /\ sse_call' = [op |-> "broadcast", message |-> Message(data, event),
                    exclude |-> exclude]
    /\ UNCHANGED <<rpc_vars, session_vars, resource_vars, clients, streams>>

\* sse_manager.client_events(client_id): a generator, not yet started
ClientEvents(client_id) ==
    /\ \E s \in StreamIds : streams[s] = NoStream
    /\ LET s == CHOOSE x \in StreamIds :
                    streams[x] = NoStream /\ \A y \in 1..(x - 1) : streams[y] # NoStream
       IN  /\ streams' = [streams EXCEPT ![s] = Generator(clients, client_id)]
           /\ sse_call' = [op |-> "client_events", client_id |-> client_id, stream |-> s]
    /\ UNCHANGED <<rpc_vars, session_vars, resource_vars, clients, queues>>

\* message = await queue.get() in the generator s bound to queue q: it waits
\* on an empty queue, ends on the stop signal, yields anything else
Get_(s, q) ==
    IF queues[q].items = <<>>
    THEN /\ streams' = [streams EXCEPT ![s].state = "waiting", ![s].queue = q]
         /\ UNCHANGED queues
    ELSE /\ queues' = [queues EXCEPT ![q].items = Tail(@)]
         /\ streams' =
                IF Head(queues[q].items) = None
                THEN [streams EXCEPT ![s].state = "done", ![s].queue = q]
                ELSE [streams EXCEPT ![s].state = "yielded", ![s].queue = q,
                                     ![s].delivered = Append(@, Head(queues[q].items))]

\* the consumer of generator s asks for the next message, or the queue that
\* the generator waits on gets an item
Anext(s) ==
    /\ streams[s].state \in {"created", "waiting", "yielded"}
    /\ IF streams[s].state = "created"
       THEN IF ~HasClient(clients, streams[s].client_id)
            THEN /\ streams' = [streams EXCEPT ![s].state = "done"]
                 /\ UNCHANGED queues
            ELSE Get_(s, QueueOf(clients, streams[s].client_id))
       ELSE /\ streams[s].state = "waiting" => queues[streams[s].queue].items # <<>>
            /\ Get_(s, streams[s].queue)
    /\ sse_call' = [op |-> "anext", stream |-> s]
    /\ UNCHANGED <<rpc_vars, session_vars, resource_vars, clients>>

SseNext ==
    \/ \E c \in ClientIds : RegisterClient(c)
    \/ \E c \in ClientIds : UnregisterClient(c)
    \/ \E c \in ClientIds, d \in Payloads, e \in EventNames : SendEvent(c, d, e)
    \/ \E d \in Payloads, e \in EventNames, x \in Excludes : Broadcast(d, e, x)
    \/ \E c \in ClientIds : ClientEvents(c)
    \/ \E s \in StreamIds : Anext(s)

SseSpec == Init /\ [][SseNext]_vars

(***************************************************************************)
(* The session manager called directly, as the tests and the application   *)
(* call it, over a store that can stop and start answering, with the tasks *)
(* it creates run by the event loop and the clock moving on.               *)
(***************************************************************************)
Ttls == {JNull, JInt(0), JInt(1)}

\* the ids that uuid4 gives, and one that no session has
SessionIds == 1..MaxSessions
Nonexistent == 0

NotCalled == [pinged |-> FALSE, scheduled |-> FALSE, raised |-> FALSE]

\* the fields that connect() leaves, with the task it scheduled, if any;
\* took: 1 when the step is itself a _delayed_reconnect task that has run
Apply(c, took) ==
    /\ c.attempts <= MaxConnects
    /\ reconnects - took + (IF c.scheduled THEN 1 ELSE 0) <= MaxReconnects
    /\ redis_pool' = c.redis_pool
    /\ redis_connection_attempts' = c.attempts
    /\ cleanup_task' = c.cleanup_task
    /\ reconnects' = reconnects - took + (IF c.scheduled THEN 1 ELSE 0)

ConnectCall(op, took) ==
    LET c == connect(redis_pool, redis_connection_attempts, cleanup_task, redis.up)
    IN  /\ Apply(c, took)
        /\ session_call' = [op |-> op, connect |-> c, up |-> redis.up,
                            result |-> IF c.raised THEN "raised" ELSE "returned"]
        /\ UNCHANGED <<rpc_vars, sse_vars, resource_vars, session_keys, redis, now>>

\* await session_manager.connect()
Connect == ConnectCall("connect", 0)

\* a task of _delayed_reconnect(delay), its sleep over
DelayedReconnect ==
    /\ reconnects > 0
    /\ ConnectCall("_delayed_reconnect", 1)

\* await session_manager.disconnect()
Disconnect ==
    /\ redis_pool' = NoPool
    /\ cleanup_task' = NoTask
    /\ session_call' = [op |-> "disconnect", connect |-> NotCalled, up |-> redis.up,
                        result |-> "returned"]
    /\ UNCHANGED <<rpc_vars, sse_vars, resource_vars, session_keys, redis_connection_attempts,
                   reconnects, redis, now>>

\* await session_manager.create_session(ttl=ttl)
CreateSession(ttl) ==
    LET c == EnsureConnected(redis_pool, redis_connection_attempts, cleanup_task, redis.up)
    IN  /\ Apply(c, 0)
        /\ IF c.raised \/ ~redis.up
           THEN /\ session_call' = [op |-> "create_session", ttl |-> ttl, connect |-> c,
                                    up |-> redis.up, result |-> "raised"]
                /\ UNCHANGED <<session_keys, redis>>
           ELSE \E session_id \in SessionIds :
                    /\ session_id \notin DOMAIN redis.keys \cup redis.sessions \cup session_keys
                    /\ redis' = Sadd(Set(redis, now, session_id, TtlOf(ttl)), session_id)
                    /\ session_keys' = session_keys \cup {session_id}
                    /\ session_call' = [op |-> "create_session", ttl |-> ttl, connect |-> c,
                                        up |-> redis.up, result |-> session_id]
        /\ UNCHANGED <<rpc_vars, sse_vars, resource_vars, now>>

\* await session_manager.delete_session(session_id)
DeleteSession(session_id) ==
    LET c == EnsureConnected(redis_pool, redis_connection_attempts, cleanup_task, redis.up)
    IN  /\ Apply(c, 0)
        /\ IF c.raised \/ ~redis.up
           THEN /\ session_call' = [op |-> "delete_session", session_id |-> session_id,
                                    connect |-> c, up |-> redis.up,
                                    result |-> IF c.raised THEN "raised" ELSE "False"]
                /\ UNCHANGED <<session_keys, redis>>
           ELSE /\ redis' = Srem(Delete(redis, session_id), {session_id})
                /\ session_keys' = session_keys \ {session_id}
                /\ session_call' = [op |-> "delete_session", session_id |-> session_id,
                                    connect |-> c, up |-> redis.up, result |-> "True"]
        /\ UNCHANGED <<rpc_vars, sse_vars, resource_vars, now>>

\* await self.cleanup_expired_sessions(), called as op
Cleanup(op) ==
    LET c == EnsureConnected(redis_pool, redis_connection_attempts, cleanup_task, redis.up)
        expired == expired_sessions(session_keys, redis, now)
    IN  /\ Apply(c, 0)
        /\ IF c.raised \/ ~redis.up
           THEN /\ session_call' = [op |-> op, connect |-> c, up |-> redis.up,
                                    result |-> IF c.raised THEN -1 ELSE 0]
                /\ UNCHANGED <<session_keys, redis>>
           ELSE /\ session_keys' = session_keys \ expired
                /\ redis' = Srem(redis, expired)
                /\ session_call' = [op |-> op, connect |-> c, up |-> redis.up,
                                    result |-> Cardinality(expired)]
        /\ UNCHANGED <<rpc_vars, sse_vars, resource_vars, now>>

\* await session_manager.cleanup_expired_sessions()
CleanupExpiredSessions == Cleanup("cleanup_expired_sessions")

\* one round of the loop of monitoring_task()
MonitoringTask ==
    /\ cleanup_task # NoTask
    /\ Cleanup("monitoring_task")

\* a second passes; the store drops the keys whose time has come
Tick ==
    /\ now < MaxTime
    /\ now' = now + 1
    /\ redis' = [redis EXCEPT !.keys =
                     [k \in {x \in DOMAIN redis.keys : Exists(redis, now + 1, x)} |->
                         redis.keys[k]]]
    /\ session_call' = NoCall
    /\ UNCHANGED <<rpc_vars, sse_vars, resource_vars, redis_pool, cleanup_task, session_keys,
                   redis_connection_attempts, reconnects>>

\* the store stops answering, or answers again
StoreChanges ==
    /\ redis' = [redis EXCEPT !.up = ~@]
    /\ session_call' = NoCall
    /\ UNCHANGED <<rpc_vars, sse_vars, resource_vars, redis_pool, cleanup_task, session_keys,
                   redis_connection_attempts, reconnects, now>>

SessionNext ==
    \/ Connect
    \/ DelayedReconnect
    \/ Disconnect
    \/ \E ttl \in Ttls : CreateSession(ttl)
    \/ \E session_id \in SessionIds \cup {Nonexistent} : DeleteSession(session_id)
    \/ CleanupExpiredSessions
    \/ MonitoringTask
    \/ Tick
    \/ StoreChanges

SessionSpec == Init /\ [][SessionNext]_vars

(***************************************************************************)
(* The resource manager called directly, as                                *)
(* tests/test_services/test_resource_manager.py calls it, with the clock   *)
(* moving on.                                                              *)
(***************************************************************************)
Contents ==
    {[bytes |-> "test binary content", size |-> 19], [bytes |-> "a", size |-> 1],
     [bytes |-> "too large", size |-> MAX_RESOURCE_SIZE_BYTES + 1]}

ResourceTypes == {"test_type"}

CallerMetadata == {JNull, [test_key |-> "test_value"]}

ResourceTtls == {JNull, JInt(1)}

\* the URIs that are asked for
Uris ==
    {generate_resource_uri(sha256(c.bytes), rt, "") :
         c \in {x \in Contents : x.size <= MAX_RESOURCE_SIZE_BYTES}, rt \in ResourceTypes}

\* what update_metadata is given: an expiry, which test_resource_ttl_and_expiry
\* puts into the cache itself
MetadataUpdates == {[expiry |-> DateTime(t)] : t \in {0}}

\* await resource_manager.store_binary(content, resource_type, metadata, ttl=ttl)
StoreBinary(content, resource_type, meta, ttl) ==
    LET out == store_binary(metadata, files, time, content, resource_type, meta, "", ttl)
    IN  /\ metadata' = out.metadata
        /\ files' = out.files
        /\ resource_call' = [op |-> "store_binary", content |-> content, meta |-> meta,
                             ttl |-> ttl, result |-> out.result]
        /\ UNCHANGED <<rpc_vars, sse_vars, session_vars, time>>

\* await resource_manager.get_binary(uri)
GetBinary(uri) ==
    LET out == get_binary(metadata, files, time, uri)
    IN  /\ metadata' = out.metadata
        /\ files' = out.files
        /\ resource_call' = [op |-> "get_binary", uri |-> uri, result |-> out.result]
        /\ UNCHANGED <<rpc_vars, sse_vars, session_vars, time>>

\* await resource_manager.get_metadata(uri)
GetMetadata(uri) ==
    /\ resource_call' = [op |-> "get_metadata", uri |-> uri,
                         result |-> get_metadata(metadata, uri)]
    /\ UNCHANGED <<rpc_vars, sse_vars, session_vars, metadata, files, time>>

\* await resource_manager.delete_resource(uri)
DeleteResource(uri) ==
    LET out == delete_resource(metadata, files, uri)
    IN  /\ metadata' = out.metadata
        /\ files' = out.files
        /\ resource_call' = [op |-> "delete_resource", uri |-> uri, result |-> out.result]
        /\ UNCHANGED <<rpc_vars, sse_vars, session_vars, time>>

\* await resource_manager.update_metadata(uri, metadata)
UpdateMetadata(uri, meta) ==
    /\ metadata' = update_metadata(metadata, uri, meta).metadata
    /\ resource_call' = [op |-> "update_metadata", uri |-> uri, meta |-> meta,
                         result |-> update_metadata(metadata, uri, meta).result]
    /\ UNCHANGED <<rpc_vars, sse_vars, session_vars, files, time>>

\* await resource_manager.clean_expired_resources()
CleanExpiredResources ==
    LET out == clean_expired_resources(metadata, files, time)
    IN  /\ metadata' = out.metadata
        /\ files' = out.files
        /\ resource_call' = [op |-> "clean_expired_resources", result |-> out.result]
        /\ UNCHANGED <<rpc_vars, sse_vars, session_vars, time>>

\* a second passes
ResourceTick ==
    /\ time < MaxClock
    /\ time' = time + 1
    /\ resource_call' = NoCall
    /\ UNCHANGED <<rpc_vars, sse_vars, session_vars, metadata, files>>

ResourceNext ==
    \/ \E c \in Contents, rt \in ResourceTypes, m \in CallerMetadata, ttl \in ResourceTtls :
           StoreBinary(c, rt, m, ttl)
    \/ \E uri \in Uris : GetBinary(uri)
    \/ \E uri \in Uris : GetMetadata(uri)
    \/ \E uri \in Uris : DeleteResource(uri)
    \/ \E uri \in Uris, m \in MetadataUpdates : UpdateMetadata(uri, m)
    \/ CleanExpiredResources
    \/ ResourceTick

ResourceSpec == Init /\ [][ResourceNext]_vars

(***************************************************************************)
(* Vocabulary of the properties.                                           *)
(***************************************************************************)
\* the engine processed the parsed body of the request
Reached == engine # NotReached
Data == request.body.value
IsSingle == Reached /\ Data.t # "arr"
IsBatch == Reached /\ Data.t = "arr" /\ Data.a # <<>>

\* a structurally valid envelope: version tag "2.0" and a non-empty string method
ShapeOk(item) ==
    /\ item.t = "obj"
    /\ "jsonrpc" \in DOMAIN item.o /\ item.o["jsonrpc"] = JStr("2.0")
    /\ "method" \in DOMAIN item.o /\ item.o["method"].t = "str"
    /\ item.o["method"].s # ""

HasId(item) == item.t = "obj" /\ "id" \in DOMAIN item.o /\ item.o["id"] # JNull
IdOf(item) == item.o["id"]

\* a notification: a valid envelope whose id is absent or null
Notification(item) == ShapeOk(item) /\ ~HasId(item)

IsError(r) == "error" \in DOMAIN r
IsResult(r) == "result" \in DOMAIN r

\* the entries of the batch response; none when the engine returned nothing
Entries == IF engine = None THEN <<>> ELSE engine.root
Answered(items) == SelectSeq(items, LAMBDA it : ~Notification(it))

\* the method handlers invoked while serving the request
MethodCalls == SelectSeq(calls, LAMBDA c : c.kind = "method")

(***************************************************************************)
(* C1: a structurally valid single request that carries an id is answered  *)
(* with that id, of the same type, whatever the outcome.                   *)
(***************************************************************************)
C1_IdEchoed ==
    (IsSingle /\ ShapeOk(Data) /\ HasId(Data)) =>
        /\ engine # None
        /\ engine.id = IdOf(Data)
        /\ engine.id.t = IdOf(Data).t

C1_Witness ==
    /\ IsSingle /\ ShapeOk(Data) /\ HasId(Data)
    /\ IdOf(Data) = JInt(1)
    /\ IsError(engine) /\ engine.error.code = INTERNAL_ERROR
    /\ engine.id = JInt(1)

(***************************************************************************)
(* C2: a notification (valid envelope, id absent or null) gets no response *)
(* object from process_single_jsonrpc: not when its method is unknown, not *)
(* when its handler raises invalid-parameters or anything else.            *)
(***************************************************************************)
C2_NotificationSilent ==
    (IsSingle /\ Notification(Data)) => engine = None

C2_Witness ==
    /\ IsSingle /\ Notification(Data)
    /\ "id" \in DOMAIN Data.o
    /\ Data.o["method"] = JStr("ping")
    /\ "ping" \in DOMAIN mcp_methods /\ mcp_methods["ping"] = "handle_fail"
    /\ MethodCalls # <<>>
    /\ engine = None

(***************************************************************************)
(* C3: a batch of N items of which M are notifications is answered with    *)
(* N-M entries, one per other item and in the order of those items; a      *)
(* notification leaves no entry and no null placeholder.                   *)
(***************************************************************************)
C3_BatchEntries ==
    IsBatch =>
        LET answered == Answered(Data.a) IN
        /\ Len(Entries) = Len(answered)
        /\ \A k \in 1..Len(Entries) :
              /\ Entries[k] # None
              /\ HasId(answered[k]) /\ ShapeOk(answered[k]) =>
                     Entries[k].id = IdOf(answered[k])

C3_Witness ==
    /\ IsBatch
    /\ Len(Data.a) = 3
    /\ Notification(Data.a[2])
    /\ Len(Entries) = 2
    /\ Entries[1].id = JStr("b") /\ Entries[2].id = JStr("a")

(***************************************************************************)
(* C4: an empty top-level array is answered with one error of code -32600  *)
(* and null id, never with an empty array, and no handler is invoked.      *)
(***************************************************************************)
EmptyBatchPosted ==
    /\ request.content_type = JStr("application/json")
    /\ request.body = JsonBody(JArr(<<>>))

C4_EmptyBatch ==
    EmptyBatchPosted =>
        /\ engine # None /\ "root" \notin DOMAIN engine
        /\ IsError(engine) /\ engine.error.code = -32600
        /\ engine.id = JNull
        /\ calls = <<>>
        /\ http.body = JObj(engine)

C4_Witness ==
    /\ EmptyBatchPosted
    /\ http.status = 200
    /\ http.body.t = "obj" /\ http.body.o.error.code = -32600

(***************************************************************************)
(* C5: when the engine produces no response value (a notification, or a    *)
(* batch of notifications only), the endpoint completes the request with   *)
(* no response body: no error envelope and no error status.                *)
(***************************************************************************)
EmptyBody == [t |-> "empty"]

C5_NoBodyForNotifications ==
    (Reached /\ engine = None) => (http.status = 200 /\ http.body = EmptyBody)

(***************************************************************************)
(* C6: every response envelope the engine produces, single or inside a     *)
(* batch, carries exactly one of result and error.                         *)
(***************************************************************************)
ExactlyOne(r) == IsResult(r) # IsError(r)

C6_ResultXorError ==
    /\ (IsSingle /\ engine # None) => ExactlyOne(engine)
    /\ (Reached /\ Data.t = "arr" /\ engine # None) =>
           IF "root" \in DOMAIN engine
           THEN \A k \in 1..Len(engine.root) : ExactlyOne(engine.root[k])
           ELSE ExactlyOne(engine)

C6_Witness ==
    /\ IsBatch /\ engine # None
    /\ Len(engine.root) = 2
    /\ IsResult(engine.root[1]) /\ ~IsError(engine.root[1])
    /\ IsError(engine.root[2]) /\ ~IsResult(engine.root[2])

(***************************************************************************)
(* C7: the failure of one batch item's handler stays with that item.       *)
(***************************************************************************)
\* the item reaches a handler: it passes the shape check and its method is registered
Dispatched(item) == ShapeOk(item) /\ item.o["method"].s \in DOMAIN mcp_methods

\* what awaiting the handler of a dispatched item gives
HandlerOutcome(item) ==
    RunMethod(mcp_methods[item.o["method"].s],
              GetDefault(item, "params", EmptyDict), tools)

DispatchedCount(items) == Cardinality({i \in 1..Len(items) : Dispatched(items[i])})

\* C7 as claimed: whatever exception the matched handler of a batch item
\* raises, the item's entry is an internal-failure error, code -32603
C7_AnyExceptionInternal ==
    IsBatch =>
        LET answered == Answered(Data.a) IN
        /\ Len(Entries) = Len(answered)
        /\ \A k \in 1..Len(Entries) :
              (Dispatched(answered[k]) /\ HandlerOutcome(answered[k]).kind # "return") =>
                  /\ IsError(Entries[k])
                  /\ Entries[k].error.code = INTERNAL_ERROR

\* the entry that answers a dispatched item whose handler ended as h
EntryMatches(entry, item, h) ==
    /\ entry.id = Get(item, "id")
    /\ h.kind = "exc" =>
           /\ IsError(entry)
           /\ entry.error.code = INTERNAL_ERROR
           /\ entry.error.message = "Internal error: " \o h.message
    /\ h.kind = "mcp" =>
           /\ IsError(entry)
           /\ entry.error.code = h.code
           /\ entry.error.message = h.message
    /\ h.kind = "return" => (IsResult(entry) /\ entry.result = h.value)

\* C7 as amended: an exception that is not a typed protocol error gives the
\* item code -32603 with the exception's message, a typed protocol error
\* gives it that error's own code and message; either way every item of the
\* batch is processed and every other item gets the response of its own
\* outcome.
C7_FailureIsolated ==
    IsBatch =>
        LET answered == Answered(Data.a) IN
        /\ Len(Entries) = Len(answered)
        /\ Len(MethodCalls) = DispatchedCount(Data.a)
        /\ \A k \in 1..Len(Entries) :
              Dispatched(answered[k]) =>
                  EntryMatches(Entries[k], answered[k], HandlerOutcome(answered[k]))

C7_Witness ==
    /\ IsBatch /\ Len(Data.a) = 3
    /\ Dispatched(Data.a[1]) /\ HandlerOutcome(Data.a[1]).kind = "exc"
    /\ Len(Entries) = 3
    /\ Entries[1].error.code = INTERNAL_ERROR
    /\ Entries[1].error.message = "Internal error: boom"
    /\ IsResult(Entries[2])
    /\ IsError(Entries[3]) /\ Entries[3].error.code = METHOD_NOT_FOUND

(***************************************************************************)
(* C8: every POST to the JSON-RPC endpoint completes with transport status *)
(* 200, whatever the outcome.                                              *)
(***************************************************************************)
C8_Always200 == ~Idle => http.status = 200

(***************************************************************************)
(* C9: what is rejected as a parse failure, before any shape check.        *)
(***************************************************************************)
JsonPosted == request.content_type = JStr("application/json")
ScalarPosted == JsonPosted /\ request.body.kind = "json" /\ Data \in Scalars
InvalidJsonPosted == JsonPosted /\ request.body = InvalidJson

HttpError(code) ==
    /\ http.status = 200
    /\ http.body.t = "obj" /\ "error" \in DOMAIN http.body.o
    /\ http.body.o.error.code = code
    /\ http.body.o.id = JNull

Rejected(item) ==
    /\ item.t = "obj"
    /\ \/ "jsonrpc" \notin DOMAIN item.o
       \/ item.o["jsonrpc"] # JStr("2.0")
       \/ "method" \notin DOMAIN item.o
       \/ item.o["method"].t # "str"

C10_ShapeBeforeLookup ==
    /\ (IsSingle /\ Rejected(Data)) =>
           /\ engine # None /\ IsError(engine)
           /\ engine.error.code = INVALID_REQUEST
           /\ calls = <<>>
    /\ IsBatch =>
           LET answered == Answered(Data.a) IN
           /\ Len(Entries) = Len(answered)
           /\ Len(MethodCalls) = DispatchedCount(Data.a)
           /\ \A k \in 1..Len(Entries) :
                  Rejected(answered[k]) =>
                      (IsError(Entries[k]) /\ Entries[k].error.code = INVALID_REQUEST)

C10_Witness ==
    /\ IsSingle /\ Rejected(Data)
    /\ Get(Data, "jsonrpc") = JStr("1.0")
    /\ Get(Data, "method") = JStr("echo") /\ "echo" \in DOMAIN mcp_methods
    /\ HasId(Data)
    /\ engine.error.code = INVALID_REQUEST
    /\ calls = <<>>

(***************************************************************************)
(* C11: a structurally valid request with an id whose method is not in the *)
(* dispatch table (neither built in nor registered) is answered with code  *)
(* -32601 and message "Method not found", and no handler is invoked.       *)
(***************************************************************************)
Unknown(item) ==
    ShapeOk(item) /\ HasId(item) /\ item.o["method"].s \notin DOMAIN mcp_methods

IsMethodNotFound(r) ==
    /\ IsError(r)
    /\ r.error.code = -32601
    /\ r.error.message = "Method not found"

C11_MethodNotFound ==
    /\ (IsSingle /\ Unknown(Data)) =>
           /\ engine # None /\ IsMethodNotFound(engine)
           /\ engine.id = IdOf(Data)
           /\ calls = <<>>
    /\ IsBatch =>
           LET answered == Answered(Data.a) IN
           /\ Len(Entries) = Len(answered)
           /\ Len(MethodCalls) = DispatchedCount(Data.a)
           /\ \A k \in 1..Len(Entries) :
                  Unknown(answered[k]) => IsMethodNotFound(Entries[k])

C11_Witness ==
    /\ IsSingle /\ Unknown(Data)
    /\ Data.o["method"] = JStr("ping") /\ IdOf(Data) = JInt(0)
    /\ IsMethodNotFound(engine)
    /\ http.status = 200 /\ http.body = JObj(engine)

(***************************************************************************)
(* C12: every request that carries an id is answered with one envelope     *)
(* whose id is the request's id, also when the shape check rejects it      *)
(* (version tag wrong or missing, method missing or not a string).         *)
(***************************************************************************)
C12_RejectedIdEchoed ==
    (IsSingle /\ HasId(Data)) =>
        /\ engine # None
        /\ engine.id = IdOf(Data)

(***************************************************************************)
(* C13: the built-in execute_tool called with a name that is not in the    *)
(* registry fails with code -32601 and the handler of no tool is invoked;  *)
(* ToolRegistry.execute_tool raises MethodNotFoundError for every absent   *)
(* name.                                                                   *)
(***************************************************************************)
\* a call of the built-in execute_tool that names a tool
ToolCall(item) ==
    /\ ShapeOk(item) /\ HasId(item)
    /\ item.o["method"] = JStr("execute_tool")
    /\ "params" \in DOMAIN item.o /\ item.o["params"].t = "obj"
    /\ "name" \in DOMAIN item.o["params"].o
    /\ item.o["params"].o["name"].t = "str"
    /\ item.o["params"].o["name"].s # ""

ToolNameOf(item) == item.o["params"].o["name"].s
ToolCalls == SelectSeq(calls, LAMBDA c : c.kind = "tool")

RaisesMethodNotFound(h) ==
    h.kind = "mcp" /\ h.code = -32601 /\ h.calls = <<>>

ProbedNames == {"", "echo", "boom", "nosuch"}

C13_UnknownTool ==
    /\ (IsSingle /\ ToolCall(Data) /\ ~HasTool(tools, ToolNameOf(Data))) =>
           /\ engine # None /\ IsError(engine)
           /\ engine.error.code = -32601
           /\ engine.error.message = "Tool not found: " \o ToolNameOf(Data)
           /\ ToolCalls = <<>>
    /\ \A name \in ProbedNames, params \in {EmptyDict, Msg(JStr("hi")), JNull} :
           ~HasTool(tools, name) =>
               RaisesMethodNotFound(execute_tool(tools, name, params))

C13_Witness ==
    /\ IsSingle /\ ToolCall(Data) /\ ToolNameOf(Data) = "nosuch"
    /\ Len(tools) = 2
    /\ engine.error.code = METHOD_NOT_FOUND
    /\ engine.error.message = "Tool not found: nosuch"
    /\ ToolCalls = <<>>

(***************************************************************************)
(* C18: round trip of the echo tool and of the built-in echo method: for a *)
(* string m, parameters {"message": m} come back as {"message": m}.        *)
(***************************************************************************)
IsMsg(p) == p.t = "obj" /\ DOMAIN p.o = {"message"} /\ p.o["message"].t = "str"

\* a call of the built-in echo method with a string message
EchoMethodCall(item) ==
    /\ ShapeOk(item) /\ HasId(item)
    /\ item.o["method"] = JStr("echo")
    /\ "params" \in DOMAIN item.o /\ IsMsg(item.o["params"])

\* a call of the echo tool, as basic_tools registers it, with a string message
EchoToolCall(item) ==
    /\ ToolCall(item) /\ ToolNameOf(item) = "echo"
    /\ HasTool(tools, "echo") /\ get_tool(tools, "echo").handler = "echo"
    /\ "parameters" \in DOMAIN item.o["params"].o
    /\ IsMsg(item.o["params"].o["parameters"])

C18_EchoRoundTrip ==
    /\ (IsSingle /\ EchoMethodCall(Data)) =>
           /\ engine # None /\ IsResult(engine)
           /\ engine.result = Data.o["params"]
    /\ (IsSingle /\ EchoToolCall(Data)) =>
           /\ engine # None /\ IsResult(engine)
           /\ engine.result = Data.o["params"].o["parameters"]
           /\ Len(ToolCalls) = 1

C18_Witness ==
    /\ IsSingle /\ EchoToolCall(Data)
    /\ Data.o["params"].o["parameters"] = Msg(JStr("5"))
    /\ engine.result = Msg(JStr("5"))

(***************************************************************************)
(* Vocabulary of the properties of the registry.                           *)
(***************************************************************************)
\* the last call on the registry executed a registered tool with a map
Executed == registry_call.op = "execute_tool"
Found == Executed /\ HasTool(tools, registry_call.name)
FoundWithMap == Found /\ registry_call.params.t = "obj"
TheTool == get_tool(tools, registry_call.name)
Raw == registry_call.params
Outcome == registry_call.outcome

ParamsOf(tool) == {tool.parameters[i] : i \in 1..Len(tool.parameters)}
Declared(tool) == {p.name : p \in ParamsOf(tool)}

IsInvalidParams(h) ==
    /\ h.kind = "mcp" /\ h.code = -32602
    /\ h.data.t = "obj" /\ "errors" \in DOMAIN h.data.o
    /\ h.data.o["errors"].t = "arr" /\ h.data.o["errors"].a # <<>>

\* the fields that the detail payload of an invalid-parameters failure names
FieldsNamed(h) ==
    {h.data.o["errors"].a[k].o["loc"].s : k \in 1..Len(h.data.o["errors"].a)}

\* the argument the handler was invoked with
HandlerArg == Outcome.calls[1].arg

(***************************************************************************)
(* C14: executing a registered tool while a required parameter is absent   *)
(* from the raw parameter map fails with code -32602, the detail payload   *)
(* names every missing field, and the handler is not invoked.              *)
(***************************************************************************)
MissingRequired(tool, raw) ==
    {p.name : p \in {q \in ParamsOf(tool) : q.required /\ q.name \notin DOMAIN raw.o}}

C14_MissingRequired ==
    (FoundWithMap /\ MissingRequired(TheTool, Raw) # {}) =>
        /\ IsInvalidParams(Outcome)
        /\ MissingRequired(TheTool, Raw) \subseteq FieldsNamed(Outcome)
        /\ \A k \in 1..Len(Outcome.data.o["errors"].a) :
               LET e == Outcome.data.o["errors"].a[k].o IN
               e["loc"].s \in MissingRequired(TheTool, Raw) <=> e["type"] = JStr("missing")
        /\ Outcome.calls = <<>>

C14_Witness ==
    /\ FoundWithMap /\ registry_call.name = "form"
    /\ MissingRequired(TheTool, Raw) = {"s", "i"}
    /\ IsInvalidParams(Outcome)
    /\ FieldsNamed(Outcome) = {"s", "i"}
    /\ Outcome.calls = <<>>

(***************************************************************************)
(* C15: an optional parameter that is absent from the raw parameters is in *)
(* the map passed to the handler with its declared default when it         *)
(* declares one, and is left out of the map when it declares none.         *)
(***************************************************************************)
C15_DefaultsFilled ==
    (FoundWithMap /\ Outcome.calls # <<>>) =>
        \A p \in ParamsOf(TheTool) :
            (~p.required /\ p.name \notin DOMAIN Raw.o) =>
                IF p.default # JNull
                THEN /\ p.name \in DOMAIN HandlerArg.o
                     /\ HandlerArg.o[p.name] = p.default
                ELSE p.name \notin DOMAIN HandlerArg.o

(***************************************************************************)
(* C16: the handler of an executed tool is invoked exactly once, with the  *)
(* validated parameter map as its one argument; the keys of the map are    *)
(* declared parameter names, and a raw key that the schema does not        *)
(* declare is dropped without error.                                       *)
(***************************************************************************)
\* the raw parameters without the keys that the tool does not declare
DeclaredOnly(tool, raw) == JObj([k \in DOMAIN raw.o \cap Declared(tool) |-> raw.o[k]])

C16_SchemaShapedArgument ==
    FoundWithMap =>
        /\ Len(Outcome.calls) <= 1
        /\ Outcome.kind = "return" => Len(Outcome.calls) = 1
        /\ Outcome.calls # <<>> =>
               /\ Outcome.calls[1] = CallTool(registry_call.name, HandlerArg)
               /\ HandlerArg.t = "obj"
               /\ DOMAIN HandlerArg.o \subseteq Declared(TheTool)
               /\ DOMAIN HandlerArg.o \subseteq DOMAIN Raw.o
        /\ IsInvalidParams(Outcome) => FieldsNamed(Outcome) \subseteq Declared(TheTool)
        /\ Outcome = execute_tool(tools, registry_call.name, DeclaredOnly(TheTool, Raw))

C16_Witness ==
    /\ FoundWithMap /\ registry_call.name = "echo"
    /\ Raw = JObj([message |-> JStr("hi"), extra |-> JInt(1)])
    /\ Outcome.kind = "return"
    /\ Outcome.calls = <<CallTool("echo", Msg(JStr("hi")))>>

(***************************************************************************)
(* C17: a supplied value of the wrong primitive type.                      *)
(***************************************************************************)
NumericLooking(v) == v.t = "str" /\ v.s \in {"0", "1", "5"}
BooleanLooking(v) ==
    \/ v.t = "str" /\ v.s \in {"0", "1", "true", "false"}
    \/ v.t = "int" /\ v.n \in {0, 1}

SixTypes == {"string", "integer", "number", "boolean", "array", "object"}

\* v is a value of the declared type, or one that coerces to it
FitsType(type, v) ==
    CASE type = "string" -> v.t = "str"
      [] type = "integer" -> v.t \in {"int", "bool"} \/ NumericLooking(v)
      [] type = "number" -> v.t \in {"int", "bool"} \/ NumericLooking(v)
      [] type = "boolean" -> v.t = "bool" \/ BooleanLooking(v)
      [] type = "array" -> v.t = "arr"
      [] type = "object" -> v.t = "obj"

\* the declared parameters that raw supplies with a value that does not fit
Misfits(tool, raw) ==
    {p \in ParamsOf(tool) :
        /\ Lower(p.type) \in SixTypes
        /\ p.name \in DOMAIN raw.o
        /\ ~FitsType(Lower(p.type), raw.o[p.name])}

Names(ps) == {p.name : p \in ps}

\* C17 as claimed: every supplied value that is not of the declared type and
\* does not coerce to it fails with -32602 and per-field detail, and the
\* handler is not invoked
C17_WrongTypeRejected ==
    (FoundWithMap /\ Misfits(TheTool, Raw) # {}) =>
        /\ IsInvalidParams(Outcome)
        /\ Names(Misfits(TheTool, Raw)) \subseteq FieldsNamed(Outcome)
        /\ Outcome.calls = <<>>

\* the misfits that are not a null given for an optional parameter
Rejectable(tool, raw) ==
    {p \in Misfits(tool, raw) : p.required \/ raw.o[p.name] # JNull}

\* C17 as amended: a supplied value that is not of the declared type and does
\* not coerce to it fails with -32602 and per-field detail, and the handler
\* is not invoked, unless the value is null and the parameter is optional: a
\* null for an optional parameter is accepted and reaches the handler as null.
C17_WrongTypeRejectedUnlessNull ==
    FoundWithMap =>
        /\ Rejectable(TheTool, Raw) # {} =>
               /\ IsInvalidParams(Outcome)
               /\ Names(Rejectable(TheTool, Raw)) \subseteq FieldsNamed(Outcome)
               /\ Outcome.calls = <<>>
        /\ \A p \in Misfits(TheTool, Raw) \ Rejectable(TheTool, Raw) :
               /\ IsInvalidParams(Outcome) => p.name \notin FieldsNamed(Outcome)
               /\ Outcome.calls # <<>> =>
                      (p.name \in DOMAIN HandlerArg.o /\ HandlerArg.o[p.name] = JNull)

C17_Witness ==
    /\ FoundWithMap /\ registry_call.name = "form"
    /\ Raw = JObj(With(FormBase, "i", JStr("x")))
    /\ IsInvalidParams(Outcome)
    /\ FieldsNamed(Outcome) = {"i"}
    /\ Outcome.calls = <<>>

(***************************************************************************)
(* C19: after any sequence of registrations, repeated ones included,       *)
(* list_tools has one entry per registered name: every registered name     *)
(* once, and no other name.                                                *)
(***************************************************************************)
ListedNames(listing) == {listing.a[k].o["name"].s : k \in 1..Len(listing.a)}

OncePerName(listing) ==
    \A j, k \in 1..Len(listing.a) :
        listing.a[j].o["name"] = listing.a[k].o["name"] => j = k

\* a registration adds its name to the listed names unless it is listed
\* already, nothing else changes the listed names, and no listing has a name
\* twice
ListingStep ==
    /\ registry_call'.op = "register_tool" =>
           ListedNames(list_tools(tools')) =
               ListedNames(list_tools(tools)) \cup {registry_call'.name}
    /\ registry_call'.op # "register_tool" =>
           ListedNames(list_tools(tools')) = ListedNames(list_tools(tools))
    /\ OncePerName(list_tools(tools'))
    /\ registry_call'.op = "list_tools" =>
           /\ OncePerName(registry_call'.result)
           /\ ListedNames(registry_call'.result) = ListedNames(list_tools(tools))
           /\ Len(registry_call'.result.a) = Len(tools)

\* the listing is empty before the first registration, and every step is a
\* ListingStep
C19_ListedOncePerName ==
    /\ list_tools(tools) = JArr(<<>>)
    /\ [][ListingStep]_vars

\* "echo" was registered, then "boom" and "form", then "echo" again
C19_Witness ==
    /\ registry_call.op = "register_tool" /\ registry_call.name = "echo"
    /\ Len(tools) = 3 /\ tools[1].name = "echo"
    /\ Len(list_tools(tools).a) = 3
    /\ ListedNames(list_tools(tools)) = {"echo", "boom", "form"}

(***************************************************************************)
(* C20: registering under a name that is already registered raises no      *)
(* error and replaces the definition entirely: lookup, listing, schema and *)
(* execution for the name use the handler, the parameters and the derived  *)
(* schema of the last registration only, and the definitions under other   *)
(* names are unchanged.                                                    *)
(***************************************************************************)
ProbeParams ==
    {EmptyDict, Msg(JStr("hi")), JObj([message |-> JStr("hi"), count |-> JStr("x")])}

Entry(reg, name) == list_tools(reg).a[CHOOSE k \in 1..Len(reg) : reg[k].name = name].o

\* the registry reg holds for r.name exactly what the registration r gave
HoldsOnly(reg, r) ==
    /\ Cardinality({k \in 1..Len(reg) : reg[k].name = r.name}) = 1
    /\ get_tool(reg, r.name).handler = r.handler
    /\ get_tool(reg, r.name).parameters = r.parameters
    /\ get_tool(reg, r.name).schema = ToolSchema(r.parameters)
    /\ Entry(reg, r.name)["schema"] = ToolSchema(r.parameters)
    /\ Entry(reg, r.name)["parameters"] =
           JArr([j \in 1..Len(r.parameters) |-> ParamDump(r.parameters[j])])
    /\ \A params \in ProbeParams :
           execute_tool(reg, r.name, params) =
               ExecuteFound(Tool(r.name, r.parameters, r.handler), params)

SameOthers(before, after, name) ==
    /\ \A k \in 1..Len(before) :
           before[k].name # name => \E j \in 1..Len(after) : after[j] = before[k]
    /\ \A j \in 1..Len(after) :
           after[j].name # name => \E k \in 1..Len(before) : before[k] = after[j]

ReplacingStep ==
    registry_call'.op = "register_tool" =>
        /\ HoldsOnly(tools', registry_call')
        /\ SameOthers(tools, tools', registry_call'.name)

C20_LastRegistrationWins == [][ReplacingStep]_vars

\* "echo" was registered before "boom" and has been registered again since
C20_Witness ==
    /\ registry_call.op = "register_tool" /\ registry_call.name = "echo"
    /\ registry_call.handler = "ok"
    /\ Len(tools) = 2 /\ tools[1].name = "echo" /\ tools[2].name = "boom"
    /\ tools[1].handler = "ok"
    /\ "count" \in DOMAIN tools[1].schema.o["properties"].o

(***************************************************************************)
(* Vocabulary of the properties of the error mapper and the responder.     *)
(***************************************************************************)
Called(op) == error_call.op = op

TableCodes == {-32600, -32601, -32602, -32603, -32700, -32800, -32000, -32001}
TableStatuses == {400, 404, 401, 403, 422, 500}

\* the fixed pairing, code to status
StatusFor(c) ==
    CASE c \in {-32600, -32700} -> 400
      [] c \in {-32601, -32800} -> 404
      [] c = -32602 -> 422
      [] c = -32603 -> 500
      [] c = -32000 -> 401
      [] c = -32001 -> 403
      [] OTHER -> 500

(***************************************************************************)
(* C21: the two mappings round-trip on the pairs of the table; inputs      *)
(* outside the table map to -32603 and to 500.                             *)
(***************************************************************************)
Defaults ==
    /\ (Called("jsonrpc_to_http") /\ error_call.input \notin TableCodes) =>
           error_call.output = 500
    /\ (Called("http_to_jsonrpc") /\ error_call.input \notin TableStatuses) =>
           error_call.output = -32603

\* C21 as claimed: code -> status -> code gives the code back for each of the
\* eight codes, status -> code -> status gives the status back for each of
\* the six statuses
C21_MutualInverses ==
    /\ (Called("jsonrpc_to_http") /\ error_call.input \in TableCodes) =>
           http_to_jsonrpc(error_call.output) = error_call.input
    /\ (Called("http_to_jsonrpc") /\ error_call.input \in TableStatuses) =>
           jsonrpc_to_http(error_call.output) = error_call.input
    /\ Defaults

\* C21 as amended: status -> code -> status gives the status back for each of
\* the six statuses; code -> status -> code gives the code back for -32600,
\* -32602, -32603, -32800, -32000 and -32001, while -32601 comes back as
\* -32800 and -32700 as -32600, the codes they share their status with
C21_InverseUpToSharedStatus ==
    /\ (Called("http_to_jsonrpc") /\ error_call.input \in TableStatuses) =>
           jsonrpc_to_http(error_call.output) = error_call.input
    /\ (Called("jsonrpc_to_http") /\ error_call.input \in TableCodes) =>
           http_to_jsonrpc(error_call.output) =
               CASE error_call.input = -32601 -> -32800
                 [] error_call.input = -32700 -> -32600
                 [] OTHER -> error_call.input
    /\ Defaults

C21_Witness ==
    /\ Called("jsonrpc_to_http") /\ error_call.input = -32601
    /\ error_call.output = 404
    /\ http_to_jsonrpc(error_call.output) = -32800

(***************************************************************************)
(* C22: jsonrpc_to_http gives each of the eight named codes its fixed      *)
(* status, and every error class of the taxonomy carries its fixed code.   *)
(***************************************************************************)
ClassCode(class) ==
    CASE class = "InvalidRequestError" -> -32600
      [] class = "MethodNotFoundError" -> -32601
      [] class = "InvalidParamsError" -> -32602
      [] class = "InternalError" -> -32603
      [] class = "ParseError" -> -32700
      [] class \in {"ResourceError", "ResourceNotFoundError"} -> -32800

C22_FixedPairing ==
    /\ (Called("jsonrpc_to_http") /\ error_call.input \in TableCodes) =>
           error_call.output = StatusFor(error_call.input)
    /\ (Called("from_mcp_error") /\ error_call.class # "MCPError") =>
           error_call.input.code = ClassCode(error_call.class)

C22_Witness ==
    /\ Called("jsonrpc_to_http") /\ error_call.input = -32602
    /\ error_call.output = 422

(***************************************************************************)
(* C23: a typed protocol error becomes a Unified Error Response with the   *)
(* status of its code (500 for a code outside the table), its own code,    *)
(* message and data.                                                       *)
(***************************************************************************)
C23_FromMcpError ==
    Called("from_mcp_error") =>
        /\ ~IsRaised(error_call.output)
        /\ error_call.output.status = StatusFor(error_call.input.code)
        /\ error_call.output.error_code = error_call.input.code
        /\ error_call.output.message = error_call.input.message
        /\ error_call.output.detail = error_call.input.data

C23_Witness ==
    /\ Called("from_mcp_error")
    /\ error_call.input.code = -32099 /\ error_call.input.data # JNull
    /\ error_call.output.status = 500
    /\ error_call.output.error_code = -32099
    /\ error_call.output.detail = error_call.input.data

(***************************************************************************)
(* C24: a transport-level exception with status s and detail d becomes a   *)
(* Unified Error Response with status s and the code of s; a string d is   *)
(* the message and the detail is empty, any other d is kept as the detail  *)
(* under the generic message.                                              *)
(***************************************************************************)
CodeFor(st) ==
    CASE st = 400 -> -32600
      [] st = 404 -> -32800
      [] st = 401 -> -32000
      [] st = 403 -> -32001
      [] st = 422 -> -32602
      [] OTHER -> -32603

C24_FromHttpException ==
    Called("from_http_exception") =>
        /\ ~IsRaised(error_call.output)
        /\ error_call.output.status = error_call.input.status_code
        /\ error_call.output.error_code = CodeFor(error_call.input.status_code)
        /\ IF error_call.input.detail.t = "str"
           THEN /\ error_call.output.message = error_call.input.detail.s
                /\ error_call.output.detail = JNull
           ELSE /\ error_call.output.message = "HTTP Error"
                /\ error_call.output.detail = error_call.input.detail

(***************************************************************************)
(* C25: a failure that is neither a typed protocol error nor a transport   *)
(* exception is normalised to status 500, code -32603, the generic message *)
(* and a detail holding the failure's string representation.               *)
(***************************************************************************)
UnexpectedHandled ==
    Called("unified_exception_handler") /\ error_call.exc.kind = "exc"

C25_UnexpectedNormalised ==
    UnexpectedHandled =>
        /\ ~IsRaised(error_call.output)
        /\ IF PathContains(error_call.path, JsonRpcTag)
           THEN /\ error_call.output.body.o.error =
                       [code |-> -32603, message |-> "An unexpected error occurred",
                        data |-> JObj([error |-> JStr(error_call.exc.message)])]
           ELSE /\ error_call.output.status = 500
                /\ error_call.output.body =
                       JObj([error_code |-> -32603,
                             message |-> "An unexpected error occurred",
                             detail |-> JObj([error |-> JStr(error_call.exc.message)])])

C25_Witness ==
    /\ UnexpectedHandled
    /\ error_call.path = <<"api", "v1", "resources">>
    /\ error_call.exc.message = "boom"
    /\ error_call.output.status = 500
    /\ error_call.output.body.o["detail"] = JObj([error |-> JStr("boom")])

(***************************************************************************)
(* C26: no exception leaves the responder, a failure on the JSON-RPC route *)
(* as the application mounts it is rendered as a JSON-RPC error envelope   *)
(* with status 200, and a failure on any other route as the body           *)
(* {error_code, message, detail} with the status of the Unified Error      *)
(* Response.                                                               *)
(***************************************************************************)
IsEnvelope(body) ==
    /\ body.t = "obj"
    /\ DOMAIN body.o = {"jsonrpc", "id", "error"}

IsRestBody(body) ==
    /\ body.t = "obj"
    /\ DOMAIN body.o = {"error_code", "message", "detail"}

C26_RenderedByRoute ==
    Called("unified_exception_handler") =>
        /\ ~IsRaised(error_call.output)
        /\ error_call.path = RoutePath =>
               (error_call.output.status = 200 /\ IsEnvelope(error_call.output.body))
        /\ error_call.path = <<"api", "v1", "resources">> =>
               /\ IsRestBody(error_call.output.body)
               /\ error_call.exc.kind = "mcp" =>
                      error_call.output.status = StatusFor(error_call.exc.code)
               /\ error_call.exc.kind = "http" =>
                      error_call.output.status = error_call.exc.status_code
               /\ error_call.exc.kind = "exc" => error_call.output.status = 500

(***************************************************************************)
(* C27: the built-in execute_tool fails with code -32602, without          *)
(* consulting the registry, when its params are not an object or the name  *)
(* entry is missing, empty or not a string.                                *)
(***************************************************************************)
ParamsOfCall(item) == GetDefault(item, "params", EmptyDict)

BadToolCall(item) ==
    /\ ShapeOk(item) /\ HasId(item)
    /\ item.o["method"] = JStr("execute_tool")
    /\ \/ ParamsOfCall(item).t # "obj"
       \/ "name" \notin DOMAIN ParamsOfCall(item).o
       \/ ParamsOfCall(item).o["name"].t # "str"
       \/ ParamsOfCall(item).o["name"] = JStr("")

C27_BadToolCall ==
    (IsSingle /\ BadToolCall(Data)) =>
        /\ engine # None /\ IsError(engine)
        /\ engine.error.code = -32602
        /\ engine.error.message =
               IF ParamsOfCall(Data).t # "obj"
               THEN "Parameters must be an object" ELSE "Tool name is required"
        /\ ToolCalls = <<>>
        /\ HandlerOutcome(Data) =
               RunMethod("handle_execute_tool", ParamsOfCall(Data), <<>>)

C27_Witness ==
    /\ IsSingle /\ BadToolCall(Data)
    /\ ParamsOfCall(Data) = JObj([name |-> JStr("")])
    /\ Len(tools) = 2
    /\ engine.error.code = INVALID_PARAMS
    /\ engine.error.message = "Tool name is required"

(***************************************************************************)
(* C28: serving a request or a batch, whatever its outcome, leaves the     *)
(* registry's definition table and the dispatch table as they were, and    *)
(* what is answered is a function of the request and the two tables.       *)
(***************************************************************************)
ServingStep ==
    (request' # request) =>
        /\ tools' = tools
        /\ mcp_methods' = mcp_methods
        /\ request' # NoRequest =>
               Served(engine', calls', http') =
                   handle_mcp_request(request'.content_type, request'.body,
                                      mcp_methods', tools')

C28_TablesUnchanged == [][ServingStep]_vars

C28_Witness ==
    /\ IsBatch /\ Len(Data.a) = 2
    /\ Len(tools) = 2 /\ "ping" \in DOMAIN mcp_methods
    /\ Len(ToolCalls) = 1 /\ Len(MethodCalls) = 2
    /\ Len(Entries) = 2 /\ IsError(Entries[2])
    /\ Entries[2].error.code = INTERNAL_ERROR

(***************************************************************************)
(* C29: registrations are permanent: a name that is in the registry is in  *)
(* it after every later register, list and execute operation.              *)
(***************************************************************************)
Permanence == \A name \in ExecNames : HasTool(tools, name) => HasTool(tools', name)

C29_RegistrationsPermanent == [][Permanence]_vars

C29_Witness ==
    /\ registry_call.op = "execute_tool" /\ registry_call.name = "boom"
    /\ registry_call.outcome.kind = "exc"
    /\ Len(tools) = 3
    /\ \A name \in {"echo", "boom", "form"} : HasTool(tools, name)

(***************************************************************************)
(* C30: a batch is processed as its items would be processed alone: for    *)
(* every position, the response to the item (or the absence of one) is     *)
(* what process_single_jsonrpc gives for that item with the same tables.   *)
(***************************************************************************)
Alone(item) == process_single_jsonrpc(item, mcp_methods, tools)

\* the positions of the batch that are answered when processed alone
AnsweredAlone(items) == {i \in 1..Len(items) : Alone(items[i]).resp # None}

\* the number of answered positions up to position i
Rank(items, i) == Cardinality({j \in AnsweredAlone(items) : j <= i})

\* the handlers and tools invoked by the items processed alone, in order
RECURSIVE CallsAlone(_, _, _)
CallsAlone(items, methods, reg) ==
    IF items = <<>> THEN <<>>
    ELSE process_single_jsonrpc(Head(items), methods, reg).calls
             \o CallsAlone(Tail(items), methods, reg)

C30_BatchAsSingles ==
    IsBatch =>
        /\ Len(Entries) = Cardinality(AnsweredAlone(Data.a))
        /\ \A i \in AnsweredAlone(Data.a) :
               Entries[Rank(Data.a, i)] = Alone(Data.a[i]).resp
        /\ calls = CallsAlone(Data.a, mcp_methods, tools)

C30_Witness ==
    /\ IsBatch /\ Len(Data.a) = 3
    /\ AnsweredAlone(Data.a) = {1, 3}
    /\ IsError(Alone(Data.a[1]).resp)
    /\ Alone(Data.a[1]).resp.error.code = INTERNAL_ERROR
    /\ Len(Entries) = 2
    /\ Entries[1] = Alone(Data.a[1]).resp
    /\ Entries[2] = Alone(Data.a[3]).resp
    /\ IsResult(Entries[2])

(***************************************************************************)
(* C39: a status of the table survives the round trip through its code,    *)
(* and the round trip of any status at all ends on a status of the table,  *)
(* so the code of a normalised transport exception has a table status.     *)
(***************************************************************************)
RoundTrip(st) == jsonrpc_to_http(http_to_jsonrpc(st))

C39_StatusRoundTrip ==
    /\ Called("http_to_jsonrpc") =>
           /\ error_call.input \in TableStatuses =>
                  jsonrpc_to_http(error_call.output) = error_call.input
           /\ jsonrpc_to_http(error_call.output) \in TableStatuses
    /\ (Called("from_http_exception") /\ ~IsRaised(error_call.output)) =>
           /\ jsonrpc_to_http(error_call.output.error_code) \in TableStatuses
           /\ error_call.input.status_code \in TableStatuses =>
                  jsonrpc_to_http(error_call.output.error_code) = error_call.output.status
    /\ \A st \in Statuses :
           /\ RoundTrip(st) \in TableStatuses
           /\ st \in TableStatuses => RoundTrip(st) = st

C39_Witness ==
    /\ Called("http_to_jsonrpc") /\ error_call.input = 422
    /\ error_call.output = -32602
    /\ jsonrpc_to_http(error_call.output) = 422

(***************************************************************************)
(* C40: an envelope without an id that fails the shape check (not an       *)
(* object, wrong version tag, missing or non-string method) is answered    *)
(* with an error of code -32600 and a null id, as a single request and as  *)
(* an entry of a batch response: only valid envelopes are suppressed.      *)
(***************************************************************************)
Misshapen(item) == ~ShapeOk(item) /\ ~HasId(item)

InvalidWithNullId(r) ==
    /\ r # None /\ IsError(r)
    /\ r.error.code = -32600
    /\ r.id = JNull

\* the position in the batch response of the entry for item i
EntryIndex(items, i) == Cardinality({j \in 1..i : ~Notification(items[j])})

C40_MisshapenAnswered ==
    /\ (IsSingle /\ Misshapen(Data)) => InvalidWithNullId(engine)
    /\ IsBatch =>
           \A i \in 1..Len(Data.a) :
               Misshapen(Data.a[i]) =>
                   /\ EntryIndex(Data.a, i) <= Len(Entries)
                   /\ InvalidWithNullId(Entries[EntryIndex(Data.a, i)])

C40_Witness ==
    /\ IsBatch /\ Len(Data.a) = 2
    /\ Notification(Data.a[1])
    /\ Data.a[2] = Envelope(V2, Absent, Absent, Absent)
    /\ Len(Entries) = 1
    /\ InvalidWithNullId(Entries[1])
    /\ Entries[1].error.message = "Invalid Request: method must be a string"

(***************************************************************************)
(* C31: a broadcast puts exactly one copy of the event on the queue of     *)
(* every registered client that is not in the exclude list and nothing on  *)
(* the queue of an excluded client; the registered clients and the         *)
(* messages already queued stay as they were.                              *)
(***************************************************************************)
Listed(exclude, client_id) ==
    exclude # JNull /\ \E i \in DOMAIN exclude.a : exclude.a[i].s = client_id

\* the queue q belongs to a registered client that the exclude list leaves in
Targeted(q, exclude) ==
    \E i \in 1..Len(clients) :
        clients[i].queue = q /\ ~Listed(exclude, clients[i].client_id)

BroadcastStep ==
    sse_call'.op = "broadcast" =>
        /\ clients' = clients
        /\ Len(queues') = Len(queues)
        /\ \A q \in 1..Len(queues) :
               queues'[q].items =
                   IF Targeted(q, sse_call'.exclude)
                   THEN Append(queues[q].items, sse_call'.message)
                   ELSE queues[q].items

C31_BroadcastOnce == [][BroadcastStep]_vars

C31_Witness ==
    /\ sse_call.op = "broadcast"
    /\ sse_call.exclude = JArr(<<JStr("test-client-2")>>)
    /\ HasClient(clients, "test-client-1") /\ HasClient(clients, "test-client-2")
    /\ Len(queues[QueueOf(clients, "test-client-1")].items) = 2
    /\ queues[QueueOf(clients, "test-client-1")].items[2] = sse_call.message
    /\ queues[QueueOf(clients, "test-client-1")].items[1] # sse_call.message
    /\ Len(queues[QueueOf(clients, "test-client-2")].items) = 1

(***************************************************************************)
(* C32: after unregister_client(c) the client is not registered, a         *)
(* send_event to it returns false and queues nothing, and the stream of c  *)
(* ends having delivered, in the order sent, every message queued before   *)
(* the unregistration.                                                     *)
(***************************************************************************)
\* a generator made for a registered client that has come to its end
Ended(s) == streams[s].state = "done" /\ streams[s].opened_on # 0

C32_StreamDrained ==
    /\ sse_call.op = "unregister_client" => ~HasClient(clients, sse_call.client_id)
    /\ (sse_call.op = "send_event" /\ ~HasClient(clients, sse_call.client_id)) =>
           sse_call.result = FALSE
    /\ \A s \in StreamIds :
           Ended(s) => streams[s].delivered = queues[streams[s].opened_on].sent

(***************************************************************************)
(* C33: a connect() that fails adds one to the attempt counter; with the   *)
(* counter then below the maximum it creates exactly one delayed retry and *)
(* returns, otherwise it raises and creates none.  As claimed, the counter *)
(* would also never pass the maximum.                                      *)
(***************************************************************************)
\* the step ran connect(), in its own right or at the head of an operation,
\* and the ping failed
FailedConnect ==
    /\ session_call'.op # "none"
    /\ session_call'.connect.pinged /\ ~session_call'.up

Took == IF session_call'.op = "_delayed_reconnect" THEN 1 ELSE 0

ConnectStep ==
    FailedConnect =>
        /\ redis_connection_attempts' = redis_connection_attempts + 1
        /\ IF redis_connection_attempts' < max_redis_connection_attempts
           THEN /\ reconnects' = reconnects - Took + 1
                /\ ~session_call'.connect.raised
           ELSE /\ reconnects' = reconnects - Took
                /\ session_call'.connect.raised

DeleteStep ==
    (/\ session_call'.op = "delete_session"
     /\ ~Exists(redis, now, session_call'.session_id)) =>
        /\ session_call'.result = "False"
        /\ redis' = redis
        /\ session_keys' = session_keys

C34_DeleteNonexistent == [][DeleteStep]_vars

(***************************************************************************)
(* C35: cleanup_expired_sessions removes from the tracked set exactly the  *)
(* tracked ids whose stored entry no longer exists, returns how many it    *)
(* removed and leaves the other tracked ids in place; a session created    *)
(* with a TTL that has since elapsed is among those it counts.             *)
(***************************************************************************)
IsCleanup(call) == call.op \in {"cleanup_expired_sessions", "monitoring_task"}

CleanedExactly ==
    /\ session_keys' = {session_id \in session_keys : Exists(redis, now, session_id)}
    /\ session_call'.result = Cardinality(session_keys \ session_keys')

\* C35 as claimed: whatever the store does
CleanupStep == IsCleanup(session_call') => CleanedExactly

AnsweredCleanupStep == (IsCleanup(session_call') /\ session_call'.up) => CleanedExactly

Unexpired(meta, t) ==
    /\ "expires_at" \in DOMAIN meta => t <= meta["expires_at"].iso
    /\ "expiry" \notin DOMAIN meta

\* the bytes that were stored under the URI, which names them by their digest
StoredBytes(uri) ==
    {c.bytes : c \in {x \in Contents : /\ x.size <= MAX_RESOURCE_SIZE_BYTES
                                       /\ sha256(x.bytes) = uri.content_hash}}

RoundTripStep ==
    /\ (/\ resource_call'.op = "store_binary"
        /\ resource_call'.content.size <= MAX_RESOURCE_SIZE_BYTES
        /\ resource_call'.meta # JNull)
       => \A k \in DOMAIN resource_call'.meta :
              /\ k \in DOMAIN get_metadata(metadata', resource_call'.result)
              /\ get_metadata(metadata', resource_call'.result)[k] = resource_call'.meta[k]
    /\ (/\ resource_call'.op = "get_binary"
        /\ resource_call'.uri \in DOMAIN metadata
        /\ Unexpired(metadata[resource_call'.uri], time))
       => \E b \in StoredBytes(resource_call'.uri) : resource_call'.result = [bytes |-> b]
    /\ resource_call'.op = "delete_resource"
       => /\ get_binary(metadata', files', time', resource_call'.uri).result = None
          /\ get_metadata(metadata', resource_call'.uri) = None

C36_RoundTrip == [][RoundTripStep]_vars

(***************************************************************************)
(* C37: a resource stored with a TTL is expired once that TTL has elapsed: *)
(* the next clean_expired_resources deletes it and counts it, and          *)
(* get_binary on its URI returns nothing from then on; a resource stored   *)
(* without a TTL is never removed by clean_expired_resources.              *)
(***************************************************************************)
\* the resources whose TTL has elapsed at t
Elapsed(md, t) ==
    {uri \in DOMAIN md : "expires_at" \in DOMAIN md[uri] /\ t > md[uri]["expires_at"].iso}

ExpiryStep ==
    /\ resource_call'.op = "clean_expired_resources"
       => /\ Elapsed(metadata, time) \cap DOMAIN metadata' = {}
          /\ resource_call'.result >= Cardinality(Elapsed(metadata, time))
          /\ \A uri \in DOMAIN metadata :
                 ("expires_at" \notin DOMAIN metadata[uri] /\ "expiry" \notin DOMAIN metadata[uri])
                     => uri \in DOMAIN metadata'
    /\ (/\ resource_call'.op = "get_binary"
        /\ resource_call'.uri \in Elapsed(metadata, time))
       => resource_call'.result = None

C37_TtlExpiry == [][ExpiryStep]_vars

(***************************************************************************)
(* C38: the delayed retry that a failed attempt scheduled pings the store  *)
(* again, and with the store reachable by then the manager ends up         *)
(* connected, the attempt counter back at 0, the monitoring task started.  *)
(***************************************************************************)
C38_RetryReconnects ==
    session_call.op = "_delayed_reconnect" =>
        /\ session_call.connect.pinged
        /\ session_call.up =>
               /\ redis_pool # NoPool
               /\ redis_connection_attempts = 0
               /\ cleanup_task # NoTask

====
